---- MODULE Spec2Model ----
(***************************************************************************)
(* Model of the oio command-line client (sim4gh/oio-go):                   *)
(*   - upload.UploadParts / uploadPart / sortParts (multipart upload)      *)
(*   - api.Request (authenticated request executor) with                   *)
(*     auth.IsTokenExpired and auth.RefreshTokens                          *)
(* Each subsystem has its own specification over the shared variables.     *)
(***************************************************************************)
EXTENDS Integers, Sequences, FiniteSets, TLC

VARIABLES
    \* ---- upload.UploadParts ----
    plan,            \* presignedUrls: the part numbers, in the order given
    upc,             \* position of UploadParts: "loop", "collect", "returned"
    bi,              \* loop variable i: 0-based index of the batch's first part
    g,               \* per part index: the goroutine running uploadPart
    results,         \* the batch's buffered results channel
    nCollected,      \* results received from the channel in this batch
    completedParts,  \* completedParts slice
    ret,             \* what UploadParts returned
    partSize,        \* partSize, as returned by the init request
    fileLen,         \* len(fileBuffer)
    onProgress,      \* TRUE when the progress callback is not nil
    partData,        \* per part index: the slice of fileBuffer it uploads
    completedBytes,  \* completedBytes
    progress,        \* the calls of onProgress made so far
    \* ---- api.Request ----
    config,          \* config.instance (the stored Credential Set)
    disk,            \* the persisted configuration file
    call,            \* the state of the Request call
    \* ---- pure functions (auth.IsTokenExpired, util.ParseTTL) ----
    pure,            \* the function applied, its input and its result
    \* ---- item resolution: runGet, tryDelete, runShare ----
    store,           \* the server's collections that hold the ID
    fan,             \* the state of the get, delete or share command
    \* ---- concurrent calls of api.Request ----
    callers,         \* per goroutine: its position in Request / RefreshTokens
    \* ---- package config and the commands that write the configuration ----
    mu,              \* config.mu: "free", or the function holding the lock
    cmd,             \* the command of the current process
    \* ---- handleFileUpload ----
    hf,              \* position of handleFileUpload and the requests it made
    \* ---- the list command ----
    ls,              \* runList: its three fetch goroutines and what it received
    \* ---- the device login ----
    poll             \* PollForToken: its interval and the answers it received

uvars == <<plan, upc, bi, g, results, nCollected, completedParts, ret,
           partSize, fileLen, onProgress, partData, completedBytes, progress>>
xvars == <<config, disk, call>>
vars == <<plan, upc, bi, g, results, nCollected, completedParts, ret,
          partSize, fileLen, onProgress, partData, completedBytes, progress,
          config, disk, call, pure, store, fan, callers, mu, cmd, hf, ls,
          poll>>
lvars == <<ls, poll>>
kvars == <<mu, cmd>>
fvars == <<store, fan>>

Min(a, b) == IF a < b THEN a ELSE b

(***************************************************************************)
(* Constants of package upload                                             *)
(***************************************************************************)
maxConcurrentUploads == 2
maxRetries == 8
retryDelayMS == 2000

(***************************************************************************)
(* Bounds of the model                                                     *)
(***************************************************************************)
MaxParts == 5
PartSize == 1000

\* Upload plans: part numbers are distinct; the server's order is ascending,
\* but descending and non-contiguous plans are explored as well.
AscPlan(n) == [i \in 1..n |-> i]
DescPlan(n) == [i \in 1..n |-> n + 1 - i]
OddPlan(n) == [i \in 1..n |-> 2 * i - 1]
Plans == UNION {{AscPlan(n), DescPlan(n), OddPlan(n)} : n \in 0..MaxParts}

\* The highest part number of a plan (0 for the empty plan).
MaxPartOf(pl) ==
    IF Len(pl) = 0 THEN 0
    ELSE CHOOSE m \in {pl[i] : i \in 1..Len(pl)} : \A i \in 1..Len(pl) : pl[i] <= m

\* Arguments of UploadParts.  The init request sends the file's size and
\* the server answers with the plan and the part size, so every part of
\* the plan starts inside the buffer: the buffer ends with a full or with a
\* half part.  An ascending plan is also run on a buffer one byte longer
\* than its parts, and without a progress callback.
UploadArgs ==
    UNION {{[plan |-> pl, partSize |-> PartSize,
             fileLen |-> MaxPartOf(pl) * PartSize, onProgress |-> TRUE],
            [plan |-> pl, partSize |-> PartSize,
             fileLen |-> IF Len(pl) = 0 THEN 0
                         ELSE MaxPartOf(pl) * PartSize - PartSize \div 2,
             onProgress |-> TRUE]} : pl \in Plans}
      \cup
    UNION {{[plan |-> AscPlan(n), partSize |-> PartSize,
             fileLen |-> n * PartSize + 1, onProgress |-> TRUE],
            [plan |-> AscPlan(n), partSize |-> PartSize,
             fileLen |-> n * PartSize, onProgress |-> FALSE]} : n \in 0..MaxParts}

\* Outcomes of one attempt of uploadPart.
\*   badreq    http.NewRequest failed
\*   conn      client.Do failed with an EPIPE/ECONNRESET/timeout error
\*   transport client.Do failed with another error
\*   status    a response with a status other than 200
\*   noetag    a 200 response without an ETag header
\*   ok        a 200 response with an ETag header
FailKinds == {"badreq", "conn", "transport", "status", "noetag"}
Outcomes == FailKinds \cup {"ok"}

\* The ETag the storage backend returns for a part.
ETagOf(p) == "etag-" \o ToString(p)

NoErr == [kind |-> "nil", part |-> 0, attempts |-> 0, cause |-> "nil"]
UploadPartFailed(p, n, last) ==
    [kind |-> "UploadPartFailed", part |-> p, attempts |-> n, cause |-> last]

\* A goroutine's locals: attempt and lastErr of uploadPart; tries counts the
\* attempts started and lastOutcome records the outcome of the latest one.
\* slept is the time.Sleep taken after the latest attempt (0: none).
IdleG == [pc |-> "idle", attempt |-> 0, lastErr |-> "nil", tries |-> 0,
          lastOutcome |-> "nil", res |-> "nil", slept |-> 0]

\* partData before the goroutine of the part has started.
NoData == [start |-> 0, end |-> 0, contentLength |-> 0]

(***************************************************************************)
(* sortParts: insertion sort by PartNumber                                 *)
(***************************************************************************)
RECURSIVE ShiftDown(_, _, _)
\* the inner loop: for j >= 0 && parts[j].PartNumber > key.PartNumber
ShiftDown(parts, j, key) ==
    IF j >= 1 /\ parts[j].PartNumber > key.PartNumber
    THEN ShiftDown([parts EXCEPT ![j + 1] = parts[j]], j - 1, key)
    ELSE [parts EXCEPT ![j + 1] = key]

RECURSIVE SortFrom(_, _)
\* the outer loop: for i := 1; i < len(parts); i++ (1-based here: i from 2)
SortFrom(parts, i) ==
    IF i > Len(parts) THEN parts
    ELSE SortFrom(ShiftDown(parts, i - 1, parts[i]), i + 1)

sortPartsUnsorted(parts) == parts

sortParts(parts) == SortFrom(parts, 2)

(***************************************************************************)
(* UploadParts                                                             *)
(***************************************************************************)
BatchEndWide(i, n) == Min(i + maxConcurrentUploads + 1, n)

\* end := i + maxConcurrentUploads, clipped to len(presignedUrls)
BatchEnd(i, n) == Min(i + maxConcurrentUploads, n)

\* 1-based indices of the parts of the batch starting at 0-based index i
BatchIdx(i) == (i + 1)..BatchEnd(i, Len(plan))

\* The batch (0, 1, 2, ...) a part index belongs to.
BatchOf(k) == (k - 1) \div maxConcurrentUploads

PartDataUnclipped(p, ps, n) ==
    [start |-> (p - 1) * ps, end |-> (p - 1) * ps + ps,
     contentLength |-> ps]

\* The goroutine's slice of the buffer (lines 304-309) and the length that
\* uploadPart declares for it (lines 364-365).
PartDataOf(p, ps, n) ==
    LET start == (p - 1) * ps
        endIdx == IF start + ps > n THEN n ELSE start + ps
    IN [start |-> start, end |-> endIdx, contentLength |-> endIdx - start]

ProgressCallBeforeAppend(parts, total, bytes, totalBytes) ==
    [completed |-> Len(parts) - 1, total |-> total,
     completedBytes |-> bytes, totalBytes |-> totalBytes]

\* onProgress(len(completedParts), totalParts, completedBytes, totalBytes)
ProgressCall(parts, total, bytes, totalBytes) ==
    [completed |-> Len(parts), total |-> total,
     completedBytes |-> bytes, totalBytes |-> totalBytes]

UploadInit ==
    /\ \E a \in UploadArgs :
          /\ plan = a.plan
          /\ partSize = a.partSize
          /\ fileLen = a.fileLen
          /\ onProgress = a.onProgress
    /\ partData = [k \in 1..Len(plan) |-> NoData]
    /\ completedBytes = 0
    /\ progress = <<>>
    /\ upc = "loop"
    /\ bi = 0
    /\ g = [k \in 1..Len(plan) |-> IdleG]
    /\ results = <<>>
    /\ nCollected = 0
    /\ completedParts = <<>>
    /\ ret = [status |-> "pending", parts |-> <<>>, partsNil |-> TRUE, err |-> NoErr]

\* for i := 0; i < len(presignedUrls); i += maxConcurrentUploads: make the
\* results channel and start one goroutine per part of the batch.
LaunchBatch ==
    /\ upc = "loop"
    /\ bi < Len(plan)
    /\ g' = [k \in 1..Len(plan) |->
                IF k \in BatchIdx(bi) THEN [g[k] EXCEPT !.pc = "run"] ELSE g[k]]
    /\ partData' = [k \in 1..Len(plan) |->
                       IF k \in BatchIdx(bi) THEN PartDataOf(plan[k], partSize, fileLen)
                       ELSE partData[k]]
    /\ results' = <<>>
    /\ nCollected' = 0
    /\ upc' = "collect"
    /\ UNCHANGED <<plan, bi, completedParts, ret, partSize, fileLen, onProgress,
                   completedBytes, progress>>

LastErrAfterKeepOnNoETag(outcome, prev) == IF outcome = "noetag" THEN prev ELSE outcome

\* lastErr = err on every failing path of the loop body
LastErrAfter(outcome, prev) == outcome

ExhaustedAfterOneMore(attempt) == attempt + 1 >= maxRetries + 1

\* the loop condition attempt < maxRetries fails after this failed attempt
Exhausted(attempt) == attempt + 1 >= maxRetries

\* The time.Sleep (in ms) that follows a failed attempt with loop index
\* attempt: lines 374-381 after an error of client.Do, lines 390-392 after a
\* status other than 200; the other failing paths continue at once.
BackoffAfter(outcome, attempt) ==
    IF outcome \in {"conn", "transport", "status"} /\ attempt < maxRetries - 1
    THEN (IF outcome = "conn" THEN 3 * retryDelayMS ELSE retryDelayMS) * (attempt + 1)
    ELSE 0

\* One iteration of uploadPart's loop in the goroutine of part index k, and
\* (when uploadPart returns) the send of the result on the channel.  The
\* staggered start (100ms x idx) and the backoff sleeps only delay the next
\* step of this goroutine: any interleaving with the other goroutine and
\* with the collecting loop remains possible.  The channel's capacity is
\* len(batch), so the send never blocks, also after UploadParts returned.
Attempt(k, outcome) ==
    /\ g[k].pc = "run"
    /\ LET p == plan[k]
           me == g[k]
           lastErr == LastErrAfter(outcome, me.lastErr)
       IN IF outcome = "ok"
          THEN \* return etag, nil
               /\ g' = [g EXCEPT ![k] = [IdleG EXCEPT !.pc = "done", !.res = "ok",
                                           !.lastOutcome = outcome]]
               /\ results' = Append(results,
                      [part |-> [PartNumber |-> p, ETag |-> ETagOf(p)],
                       size |-> partData[k].end - partData[k].start, err |-> NoErr])
          ELSE IF Exhausted(me.attempt)
          THEN \* return "", fmt.Errorf("failed to upload part ...", lastErr)
               /\ g' = [g EXCEPT ![k] = [IdleG EXCEPT !.pc = "done", !.res = "err",
                                           !.tries = me.tries + 1,
                                           !.lastOutcome = outcome,
                                           !.slept = BackoffAfter(outcome, me.attempt)]]
               /\ results' = Append(results,
                      [part |-> [PartNumber |-> p, ETag |-> ""],
                       size |-> partData[k].end - partData[k].start,
                       err |-> UploadPartFailed(p, maxRetries, lastErr)])
          ELSE \* continue
               /\ g' = [g EXCEPT ![k] = [me EXCEPT !.attempt = me.attempt + 1,
                                                    !.lastErr = lastErr,
                                                    !.tries = me.tries + 1,
                                                    !.lastOutcome = outcome,
                                                    !.slept = BackoffAfter(outcome, me.attempt)]]
               /\ UNCHANGED results
    /\ UNCHANGED <<plan, upc, bi, nCollected, completedParts, ret, partSize, fileLen,
                   onProgress, partData, completedBytes, progress>>

Attempts == \E k \in 1..Len(plan), outcome \in Outcomes : Attempt(k, outcome)

BatchCollectedEarly(n, i) == n >= 1

\* for range batch: the batch is done when len(batch) results were received
BatchCollected(n, i) == n = Cardinality(BatchIdx(i))

CollectErrorPartial(r) ==
    [status |-> "err", parts |-> completedParts, partsNil |-> FALSE, err |-> r.err]

\* if result.err != nil { return nil, result.err }
CollectError(r) ==
    [status |-> "err", parts |-> <<>>, partsNil |-> TRUE, err |-> r.err]

OnErrorContinue(r) ==
    [upc |-> IF BatchCollected(nCollected + 1, bi) THEN "loop" ELSE "collect",
     bi |-> IF BatchCollected(nCollected + 1, bi) THEN bi + maxConcurrentUploads ELSE bi,
     nCollected |-> nCollected + 1,
     ret |-> CollectError(r)]

\* the error branch of the collecting loop returns from UploadParts at once
OnError(r) ==
    [upc |-> "returned", bi |-> bi, nCollected |-> nCollected, ret |-> CollectError(r)]

\* result := <-results, and the rest of the collecting loop's body
Collect ==
    /\ upc = "collect"
    /\ results /= <<>>
    /\ LET r == Head(results)
       IN /\ results' = Tail(results)
          /\ IF r.err.kind /= "nil"
             THEN /\ ret' = OnError(r).ret
                  /\ upc' = OnError(r).upc
                  /\ bi' = OnError(r).bi
                  /\ nCollected' = OnError(r).nCollected
                  /\ UNCHANGED <<completedParts, completedBytes, progress>>
             ELSE /\ completedParts' = Append(completedParts, r.part)
                  /\ completedBytes' = completedBytes + r.size
                  /\ progress' =
                        IF onProgress
                        THEN Append(progress, ProgressCall(completedParts', Len(plan),
                                                           completedBytes', fileLen))
                        ELSE progress
                  /\ nCollected' = nCollected + 1
                  /\ IF BatchCollected(nCollected + 1, bi)
                     THEN /\ bi' = bi + maxConcurrentUploads
                          /\ upc' = "loop"
                     ELSE UNCHANGED <<bi, upc>>
                  /\ UNCHANGED ret
    /\ UNCHANGED <<plan, g, partSize, fileLen, onProgress, partData>>

\* the batches are over: sortParts(completedParts); return completedParts, nil
Return ==
    /\ upc = "loop"
    /\ bi >= Len(plan)
    /\ completedParts' = sortParts(completedParts)
    /\ ret' = [status |-> "ok", parts |-> completedParts', partsNil |-> FALSE,
               err |-> NoErr]
    /\ upc' = "returned"
    /\ UNCHANGED <<plan, bi, g, results, nCollected, partSize, fileLen, onProgress,
                   partData, completedBytes, progress>>


(***************************************************************************)
(* auth.IsTokenExpired                                                     *)
(***************************************************************************)
Now == 1000
BufferSeconds == 60

\* A token string is empty, not decodable as a JWT, or a JWT whose payload
\* carries sub and exp (exp = 0 when the claim is missing).
EmptyTok == [kind |-> "empty", sub |-> "", exp |-> 0]
GarbageTok == [kind |-> "garbage", sub |-> "", exp |-> 0]
JWT(sub, exp) == [kind |-> "jwt", sub |-> sub, exp |-> exp]

IsTokenExpiredNoBuffer(token) ==
    IF token.kind = "empty" THEN TRUE
    ELSE IF token.kind = "garbage" THEN TRUE
    ELSE IF token.exp = 0 THEN TRUE
    ELSE token.exp < Now

IsTokenExpired(token) ==
    IF token.kind = "empty" THEN TRUE             \* token == ""
    ELSE IF token.kind = "garbage" THEN TRUE      \* DecodeJWT fails
    ELSE IF token.exp = 0 THEN TRUE               \* payload.Exp == 0
    ELSE token.exp < Now + BufferSeconds          \* expirationTime.Before(now.Add(buffer))

(***************************************************************************)
(* config: the stored Credential Set                                       *)
(***************************************************************************)
\* ID tokens a configuration file can hold when it is loaded.
StoredIDTokens ==
    {EmptyTok, GarbageTok, JWT("old", 0), JWT("old", Now + 10), JWT("old", Now + 3600)}

\* id_token values of a 200 response of the token endpoint (the field is
\* decoded into a string: "" when it is missing).
RefreshedIDTokens == {EmptyTok, JWT("new", Now + 10), JWT("new", Now + 3600)}

BaseURLs == {"", "https://api", "://bad"}

Configs ==
    [BaseURL : BaseURLs, IDToken : StoredIDTokens, AccessToken : {"", "a-old"},
     RefreshToken : {"", "r-old"}]

\* 200 responses of the token endpoint, decoded into TokenResponse.
TokenResponses ==
    [IDToken : RefreshedIDTokens, AccessToken : {"a-new"}, RefreshToken : {"", "r-new"}]

(***************************************************************************)
(* api.Request                                                             *)
(***************************************************************************)
\* opts == nil is replaced by &RequestOptions{}
NilOptions ==
    [isNil |-> TRUE, Method |-> "", Body |-> "nil", Headers |-> "nil",
     RequireAuth |-> FALSE]

\* *RequestOptions; isNil is opts == nil.
RequestOptions ==
    [isNil : {FALSE}, Method : {"", "GET", "POST"},
     Body : {"nil", "json", "unmarshalable"}, Headers : {"nil", "set"},
     RequireAuth : BOOLEAN]
      \cup {NilOptions}

StatusCodes == {200, 204, 403, 404, 500}

\* What DefaultClient.Do and the read of the body can yield.
Exchanges ==
    [kind : {"response"}, status : StatusCodes]
      \cup [kind : {"doError", "readError"}, status : {0}]

\* What the POST to the token endpoint inside RefreshTokens can yield.
RefreshExchanges ==
    [kind : {"tokens"}, tokens : TokenResponses, saveOK : BOOLEAN]
      \cup [kind : {"doError", "readError", "status", "decodeError"},
            tokens : {[IDToken |-> EmptyTok, AccessToken |-> "", RefreshToken |-> ""]},
            saveOK : {TRUE}]

NoHeader == [present |-> FALSE, token |-> EmptyTok]
Bearer(tok) == [present |-> TRUE, token |-> tok]

NoResult == [kind |-> "none", status |-> 0, err |-> "nil", cause |-> "nil"]
ErrResult(e, cause) == [kind |-> "error", status |-> 0, err |-> e, cause |-> cause]
Response(st) == [kind |-> "response", status |-> st, err |-> "nil", cause |-> "nil"]

IdleCall ==
    [pc |-> "idle", opts |-> NilOptions, requireAuth |-> FALSE, baseURL |-> "", idToken |-> EmptyTok,
     body |-> "nil", header |-> NoHeader, result |-> NoResult,
     \* what the call has done so far
     cfg0 |-> [BaseURL |-> "", IDToken |-> EmptyTok, AccessToken |-> "",
               RefreshToken |-> ""],
     wasExpired |-> FALSE, refreshCalls |-> 0, refreshPosts |-> 0,
     refreshed |-> "none", refreshTok |-> EmptyTok, refreshErr |-> "nil",
     refreshDoneAtSend |-> FALSE, sent |-> 0, exchange |-> "none", exStatus |-> 0]

ExecInit ==
    /\ config \in Configs
    /\ disk = config
    /\ call = IdleCall

RequireAuthAsGiven(opts) == opts.RequireAuth

\* requireAuth := true; if opts.Method != "" || opts.Body != nil ||
\* opts.Headers != nil { requireAuth = opts.RequireAuth }
RequireAuthOf(opts) ==
    IF opts.Method /= "" \/ opts.Body /= "nil" \/ opts.Headers /= "nil"
    THEN opts.RequireAuth
    ELSE TRUE

HeaderForAlways(idToken) == Bearer(idToken)

\* if idToken != "" { req.Header.Set("Authorization", "Bearer "+idToken) }
HeaderFor(idToken) == IF idToken.kind /= "empty" THEN Bearer(idToken) ELSE NoHeader

\* Lines 84-117: marshal the body, build the request, set the headers and
\* hand the request to DefaultClient.Do; c is the call record so far.
Send(c, idToken) ==
    IF c.body = "unmarshalable"
    THEN [c EXCEPT !.pc = "done", !.idToken = idToken,
                   !.result = ErrResult("MarshalError", "nil")]
    ELSE IF c.baseURL = "://bad"
    THEN [c EXCEPT !.pc = "done", !.idToken = idToken,
                   !.result = ErrResult("CreateRequestError", "nil")]
    ELSE [c EXCEPT !.pc = "sending", !.idToken = idToken,
                   !.header = HeaderFor(idToken),
                   !.sent = c.sent + 1,
                   !.refreshDoneAtSend = (c.refreshed = "ok")]

PreflightTokenOnly(cfg, requireAuth) ==
    IF requireAuth /\ cfg.IDToken.kind = "empty" THEN "NotAuthenticated" ELSE "nil"

PreflightTokenFirst(cfg, requireAuth) ==
    IF requireAuth /\ cfg.IDToken.kind = "empty" THEN "NotAuthenticated"
    ELSE IF cfg.BaseURL = "" /\ requireAuth THEN "NotConfigured"
    ELSE "nil"

\* Lines 57-70: the base URL is resolved first (NotConfigured when there is
\* none and auth is required), then the stored ID token is looked at.  A nil
\* configuration behaves like the empty one in both tests.
Preflight(cfg, requireAuth) ==
    IF cfg.BaseURL = "" /\ requireAuth THEN "NotConfigured"
    ELSE IF requireAuth /\ cfg.IDToken.kind = "empty" THEN "NotAuthenticated"
    ELSE "nil"

\* Lines 40-82 of Request, up to the first blocking call.
BeginRequest(opts) ==
    /\ call.pc \in {"idle", "done"}
    /\ LET requireAuth == RequireAuthOf(opts)
           c0 == [IdleCall EXCEPT
                    !.opts = opts,
                    !.requireAuth = requireAuth,
                    !.baseURL = IF config.BaseURL /= "" THEN config.BaseURL
                                ELSE "default",
                    !.body = opts.Body,
                    !.cfg0 = config]
       IN IF Preflight(config, requireAuth) /= "nil"
          THEN call' = [c0 EXCEPT !.pc = "done",
                                  !.result = ErrResult(Preflight(config, requireAuth), "nil")]
          ELSE IF ~requireAuth
          THEN call' = Send(c0, EmptyTok)
          ELSE IF IsTokenExpired(config.IDToken)
          THEN \* auth.RefreshTokens()
               IF config.RefreshToken = ""
               THEN call' = [c0 EXCEPT !.pc = "done", !.wasExpired = TRUE,
                                       !.refreshCalls = 1,
                                       !.refreshed = "failed",
                                       !.refreshErr = "NoRefreshToken",
                                       !.result = ErrResult("AuthExpired", "NoRefreshToken")]
               ELSE call' = [c0 EXCEPT !.pc = "refreshing", !.wasExpired = TRUE,
                                       !.refreshCalls = 1, !.refreshPosts = 1]
          ELSE call' = Send(c0, config.IDToken)
    /\ UNCHANGED <<config, disk>>

BeginRequests == \E opts \in RequestOptions : BeginRequest(opts)

UpdatedConfigNotStored(cfg, t) == cfg

\* RefreshTokens lines 87-92: the stored tokens after a 200 response
UpdatedConfig(cfg, t) ==
    [cfg EXCEPT !.IDToken = t.IDToken,
                !.AccessToken = t.AccessToken,
                !.RefreshToken = IF t.RefreshToken /= "" THEN t.RefreshToken ELSE @]

AfterRefreshStale(c, t) == Send(c, c.cfg0.IDToken)

\* idToken = tokens.IDToken, then the rest of Request
AfterRefresh(c, t) == Send(c, t.IDToken)

AfterRefreshErrorRetry(c, e) ==
    [c EXCEPT !.pc = "refreshing", !.refreshed = "failed", !.refreshErr = e,
              !.refreshCalls = c.refreshCalls + 1, !.refreshPosts = c.refreshPosts + 1]

\* if err != nil { return nil, fmt.Errorf("authentication expired: %w", err) }
AfterRefreshError(c, e) ==
    [c EXCEPT !.pc = "done", !.refreshed = "failed", !.refreshErr = e,
              !.result = ErrResult("AuthExpired", e)]

\* The token endpoint answers (or the POST fails): the rest of
\* RefreshTokens, and Request up to DefaultClient.Do.
RefreshResponse(x) ==
    /\ call.pc = "refreshing"
    /\ IF x.kind = "tokens"
       THEN /\ config' = UpdatedConfig(config, x.tokens)
            /\ IF x.saveOK
               THEN /\ disk' = config'
                    /\ call' = AfterRefresh([call EXCEPT !.refreshed = "ok",
                                                        !.refreshTok = x.tokens.IDToken],
                                            x.tokens)
               ELSE /\ UNCHANGED disk
                    /\ call' = AfterRefreshError(call, "SaveError")
       ELSE /\ call' = AfterRefreshError(call, x.kind)
            /\ UNCHANGED <<config, disk>>

RefreshResponses == \E x \in RefreshExchanges : RefreshResponse(x)

ResultOfStatusAsError(x) ==
    IF x.kind = "response"
    THEN IF x.status >= 400 THEN ErrResult("HTTPError", "nil") ELSE Response(x.status)
    ELSE ErrResult(x.kind, "nil")

\* Lines 117-136: the result of Request once the exchange is over
ResultOf(x) ==
    IF x.kind = "response" THEN Response(x.status)
    ELSE ErrResult(x.kind, "nil")

\* DefaultClient.Do returns and the body is read.
TargetResponse(x) ==
    /\ call.pc = "sending"
    /\ call' = [call EXCEPT !.pc = "done", !.result = ResultOf(x),
                            !.exchange = x.kind, !.exStatus = x.status]
    /\ UNCHANGED <<config, disk>>

TargetResponses == \E x \in Exchanges : TargetResponse(x)

(***************************************************************************)
(* util.ParseTTL                                                           *)
(***************************************************************************)
\* A string is a sequence of one-character strings.
DigitChars == {"0", "1", "2", "3", "4", "5", "6", "7", "8", "9"}
UnitChars == {"s", "m", "h", "d"}

DigitVal(c) ==
    CASE c = "0" -> 0 [] c = "1" -> 1 [] c = "2" -> 2 [] c = "3" -> 3
      [] c = "4" -> 4 [] c = "5" -> 5 [] c = "6" -> 6 [] c = "7" -> 7
      [] c = "8" -> 8 [] c = "9" -> 9

\* ttlRegex = ^(\d+)([smhd])$ : RE2 without the m flag, so $ is the end of
\* the text and \d is an ASCII digit.
ttlRegexMatch(str) ==
    /\ Len(str) >= 2
    /\ \A i \in 1..(Len(str) - 1) : str[i] \in DigitChars
    /\ str[Len(str)] \in UnitChars

RECURSIVE StripZeros(_)
StripZeros(ds) ==
    IF ds /= <<>> /\ Head(ds) = "0" THEN StripZeros(Tail(ds)) ELSE ds

RECURSIVE LexGreater(_, _)
\* ds > es for digit sequences of the same length
LexGreater(ds, es) ==
    IF ds = <<>> THEN FALSE
    ELSE IF DigitVal(Head(ds)) /= DigitVal(Head(es))
    THEN DigitVal(Head(ds)) > DigitVal(Head(es))
    ELSE LexGreater(Tail(ds), Tail(es))

\* math.MaxInt64 = 9223372036854775807
MaxInt64Digits ==
    <<"9", "2", "2", "3", "3", "7", "2", "0", "3", "6", "8", "5", "4", "7", "7",
      "5", "8", "0", "7">>

\* strconv.Atoi of a non-empty digit string fails only when the number is
\* out of the range of int (64 bits).
AtoiFails(ds) ==
    LET sig == StripZeros(ds)
    IN \/ Len(sig) > Len(MaxInt64Digits)
       \/ Len(sig) = Len(MaxInt64Digits) /\ LexGreater(sig, MaxInt64Digits)

\* Above AtoiCap the value is only ever compared with the ceilings, all of
\* which are smaller: it is kept at the first value above the cap.
AtoiCap == 100000000

RECURSIVE AtoiFrom(_, _)
AtoiFrom(ds, acc) ==
    IF ds = <<>> THEN acc
    ELSE IF acc > AtoiCap THEN acc
    ELSE AtoiFrom(Tail(ds), 10 * acc + DigitVal(Head(ds)))

AtoiValue(ds) == AtoiFrom(ds, 0)

maxSeconds == 31536000
maxMinutes == 525600
maxHours == 8760
maxDays == 365

TTLOk(v) == [ok |-> TRUE, seconds |-> v, err |-> "nil"]
TTLErr(e) == [ok |-> FALSE, seconds |-> 0, err |-> e]

ParseTTLZeroAllowed(str) ==
    IF str = <<>> THEN TTLErr("format")
    ELSE IF ~ttlRegexMatch(str) THEN TTLErr("format")
    ELSE LET ds == SubSeq(str, 1, Len(str) - 1)
             unit == str[Len(str)]
             value == AtoiValue(ds)
         IN IF AtoiFails(ds) THEN TTLErr("atoi")
            ELSE IF value < 0 THEN TTLErr("nonpositive")
            ELSE CASE unit = "s" ->
                        IF value > maxSeconds THEN TTLErr("ceiling") ELSE TTLOk(value)
                   [] unit = "m" ->
                        IF value > maxMinutes THEN TTLErr("ceiling") ELSE TTLOk(value * 60)
                   [] unit = "h" ->
                        IF value > maxHours THEN TTLErr("ceiling") ELSE TTLOk(value * 3600)
                   [] unit = "d" ->
                        IF value > maxDays THEN TTLErr("ceiling") ELSE TTLOk(value * 86400)
                   [] OTHER -> TTLErr("unit")

ParseTTL(str) ==
    IF str = <<>> THEN TTLErr("format")                     \* ttlString == ""
    ELSE IF ~ttlRegexMatch(str) THEN TTLErr("format")       \* matches == nil
    ELSE LET ds == SubSeq(str, 1, Len(str) - 1)             \* matches[1]
             unit == str[Len(str)]                          \* matches[2]
             value == AtoiValue(ds)
         IN IF AtoiFails(ds) THEN TTLErr("atoi")
            ELSE IF value <= 0 THEN TTLErr("nonpositive")
            ELSE CASE unit = "s" ->
                        IF value > maxSeconds THEN TTLErr("ceiling") ELSE TTLOk(value)
                   [] unit = "m" ->
                        IF value > maxMinutes THEN TTLErr("ceiling") ELSE TTLOk(value * 60)
                   [] unit = "h" ->
                        IF value > maxHours THEN TTLErr("ceiling") ELSE TTLOk(value * 3600)
                   [] unit = "d" ->
                        IF value > maxDays THEN TTLErr("ceiling") ELSE TTLOk(value * 86400)
                   [] OTHER -> TTLErr("unit")

IsValidTTLRanged(ttlString) == ParseTTL(ttlString).ok

\* util.IsValidTTL: ttlRegex.MatchString(ttlString)
IsValidTTL(ttlString) == ttlRegexMatch(ttlString)

(***************************************************************************)
(* Inputs of the pure functions                                            *)
(***************************************************************************)
MaxPad == 1

\* Expiry claims around the 60 second buffer.
GateTokens ==
    {EmptyTok, GarbageTok, JWT("u", 0)}
      \cup {JWT("u", Now + d) : d \in {-100, -1, 0, 1, 30, 59, 60, 61, 120, 3600}}

RECURSIVE DigitsOf(_)
\* the decimal numeral of a natural number
DigitsOf(n) ==
    IF n < 10 THEN <<ToString(n)>>
    ELSE Append(DigitsOf(n \div 10), ToString(n % 10))

RECURSIVE Zeros(_)
Zeros(k) == IF k = 0 THEN <<>> ELSE <<"0">> \o Zeros(k - 1)

TTLNumbers ==
    {0, 1, 2, 3, 59, 90, 365, 366, 400, 8760, 8761, 525600, 525601,
     31536000, 31536001, 99999999}

\* A numeral with the number it denotes: val = -1 for no digits at all and
\* val = 2000000000 stands for the numbers beyond it (20 and 19 digits here).
Numerals ==
    {[seq |-> Zeros(z) \o DigitsOf(n), val |-> n] : n \in TTLNumbers, z \in 0..MaxPad}
      \cup {[seq |-> <<>>, val |-> -1],
            [seq |-> Zeros(MaxPad) \o MaxInt64Digits, val |-> 2000000000],
            [seq |-> <<"9">> \o Tail(MaxInt64Digits) \o <<"9">>, val |-> 2000000000],
            [seq |-> SubSeq(MaxInt64Digits, 1, 18) \o <<"8">>, val |-> 2000000000]}

TTLPrefixes == {<<>>, <<"-">>, <<"+">>, <<" ">>}
TTLSuffixes ==
    {<<>>, <<"s">>, <<"m">>, <<"h">>, <<"d">>, <<"x">>, <<"S">>, <<"s", " ">>,
     <<"s", "\n">>, <<".", "5", "s">>, <<"m", "s">>}

\* TTL strings by construction: prefix, numeral, suffix.
TTLInputs == [prefix : TTLPrefixes, num : Numerals, suffix : TTLSuffixes]
TTLString(in) == in.prefix \o in.num.seq \o in.suffix

NoTTLInput == [prefix |-> <<>>, num |-> [seq |-> <<>>, val |-> -1], suffix |-> <<>>]

(***************************************************************************)
(* The TTL of an add request: calculateTTL and the request bodies          *)
(***************************************************************************)
maxFileTTLSeconds == 604800
defaultTTL == <<"2", "4", "h">>
fallbackTTLSeconds == 86400

\* calculateTTL(isFile) with the flags --permanent and --ttl
calculateTTL(isFile, addPermanent, addTTL) ==
    IF addPermanent THEN 0
    ELSE LET parsed == ParseTTL(IF addTTL = <<>> THEN defaultTTL ELSE addTTL)
             ttlSeconds == IF parsed.ok THEN parsed.seconds ELSE fallbackTTLSeconds
         IN IF isFile /\ ttlSeconds > maxFileTTLSeconds THEN maxFileTTLSeconds
            ELSE ttlSeconds

\* The "ttl" field of a request body: absent, or a number of seconds.
NoTTLField == [present |-> FALSE, seconds |-> 0]
TTLField(n) == [present |-> TRUE, seconds |-> n]

AddKinds == {"text", "file", "image"}

\* The body's ttl field as the three upload paths set it:
\*   uploadTextContent  if ttlSeconds > 0 { body["ttl"] = ttlSeconds }
\*   handleFileUpload   if ttlSeconds > 0 { initBody["ttl"] = "<n>s" }
\*   uploadImage        if ttlSeconds > 0 { "<n>s" } else { "24h" }
AddTTLField(kind, addPermanent, addTTL) ==
    LET ttlSeconds == calculateTTL(kind /= "text", addPermanent, addTTL)
    IN IF ttlSeconds > 0 THEN TTLField(ttlSeconds)
       ELSE IF kind = "image" THEN TTLField(24 * 3600)
       ELSE NoTTLField

\* The isPublic and password fields of a share request body (the title,
\* description and expiry fields are set from their own flags).
NoShareBody == [isPublic |-> FALSE, hasPassword |-> FALSE, password |-> ""]

\* buildShareBody (share command) with the flags --public and --password
buildShareBody(sharePublic, sharePassword) ==
    LET isPublic == sharePublic \/ sharePassword = ""
    IN IF sharePassword /= ""
       THEN [isPublic |-> FALSE, hasPassword |-> TRUE, password |-> sharePassword]
       ELSE [isPublic |-> isPublic, hasPassword |-> FALSE, password |-> ""]

\* the body createShare builds (share on add) with --public and --password
createShareBody(addPublic, addPassword) ==
    LET isPublic == addPublic \/ addPassword = ""
    IN IF addPassword /= ""
       THEN [isPublic |-> isPublic, hasPassword |-> TRUE, password |-> addPassword]
       ELSE [isPublic |-> isPublic, hasPassword |-> FALSE, password |-> ""]

SharePasswords == {"", "pw"}

IdlePure ==
    [fn |-> "none", tok |-> EmptyTok, in |-> NoTTLInput, done |-> FALSE,
     expired |-> FALSE, ttl |-> TTLErr("nil"), valid |-> FALSE,
     kind |-> "none", permanent |-> FALSE, body |-> NoTTLField,
     public |-> FALSE, password |-> "", share |-> NoShareBody]

\* Values of --ttl given to `oio a`: none, and numerals with or without unit.
AddTTLInputs ==
    {in \in TTLInputs :
        /\ in.prefix = <<>>
        /\ in.suffix \in {<<>>, <<"d">>, <<"s">>}
        /\ in.num.val \in {-1, 0, 3, 90, 400}
        /\ in.num.val >= 0 => in.num.seq = DigitsOf(in.num.val)}

PureInit ==
    \/ \E t \in GateTokens : pure = [IdlePure EXCEPT !.fn = "IsTokenExpired", !.tok = t]
    \/ \E in \in TTLInputs : pure = [IdlePure EXCEPT !.fn = "ParseTTL", !.in = in]
    \/ \E in \in TTLInputs : pure = [IdlePure EXCEPT !.fn = "IsValidTTL", !.in = in]
    \/ \E in \in AddTTLInputs, kind \in AddKinds, permanent \in BOOLEAN :
          pure = [IdlePure EXCEPT !.fn = "AddTTL", !.in = in, !.kind = kind,
                                  !.permanent = permanent]
    \/ \E fn \in {"buildShareBody", "createShare"}, public \in BOOLEAN,
          password \in SharePasswords :
          pure = [IdlePure EXCEPT !.fn = fn, !.public = public, !.password = password]

ApplyIsTokenExpired ==
    /\ pure.fn = "IsTokenExpired"
    /\ ~pure.done
    /\ pure' = [pure EXCEPT !.done = TRUE, !.expired = IsTokenExpired(pure.tok)]

ApplyParseTTL ==
    /\ pure.fn = "ParseTTL"
    /\ ~pure.done
    /\ pure' = [pure EXCEPT !.done = TRUE, !.ttl = ParseTTL(TTLString(pure.in))]

ApplyIsValidTTL ==
    /\ pure.fn = "IsValidTTL"
    /\ ~pure.done
    /\ pure' = [pure EXCEPT !.done = TRUE, !.valid = IsValidTTL(TTLString(pure.in))]

\* The add command builds the body of its request.
ApplyAddTTL ==
    /\ pure.fn = "AddTTL"
    /\ ~pure.done
    /\ pure' = [pure EXCEPT !.done = TRUE,
                            !.body = AddTTLField(pure.kind, pure.permanent,
                                                 TTLString(pure.in))]

\* The share command builds the body of its request.
ApplyBuildShareBody ==
    /\ pure.fn = "buildShareBody"
    /\ ~pure.done
    /\ pure' = [pure EXCEPT !.done = TRUE,
                            !.share = buildShareBody(pure.public, pure.password)]

\* The add command builds the body of the share request that follows the
\* upload.
ApplyCreateShare ==
    /\ pure.fn = "createShare"
    /\ ~pure.done
    /\ pure' = [pure EXCEPT !.done = TRUE,
                            !.share = createShareBody(pure.public, pure.password)]

(***************************************************************************)
(* Item resolution: runGet (get.go), tryDelete (delete.go), runShare       *)
(***************************************************************************)
Kinds == {"short", "screenshot", "file"}
FanOps == {"get", "delete", "share"}

ProbeOrderShareLikeGet(op) == <<"short", "screenshot", "file">>

ProbeOrderNoFile(op) ==
    IF op = "share" THEN <<"file", "short">> ELSE <<"short", "screenshot">>

\* The collections the command queries, in the order of its code:
\*   runGet     /shorts/, /screenshots/, /files/
\*   tryDelete  /shorts/, /screenshots/, /files/
\*   runShare   /files/<id>/share, then /shorts/<id>/share
ProbeOrder(op) ==
    IF op = "share" THEN <<"file", "short">>
    ELSE <<"short", "screenshot", "file">>

\* Status codes with which the server reports success to the command.
SuccessCodes(op) ==
    CASE op = "get" -> {200}
      [] op = "delete" -> {200, 204}
      [] op = "share" -> {200, 201}

FaultStatuses == {401, 403, 500}
FanErrors == {"NotAuthenticated", "AuthExpired", "doError"}

\* What api.Get / api.Delete / api.Post can return for a probe of kind k:
\* an error of Request, or a response: success when the collection holds the
\* ID, 404 when it does not, or 401/403/500 in either case.
ProbeOutcomes(op, k) ==
    {ErrResult(e, "nil") : e \in FanErrors}
      \cup {Response(st) : st \in FaultStatuses}
      \cup (IF k \in store THEN {Response(st) : st \in SuccessCodes(op)}
            ELSE {Response(404)})

IsResp(out, codes) == out.kind = "response" /\ out.status \in codes

\* A step of a command after a probe: go on with the next kind, or return.
Continue == [done |-> FALSE, result |-> "none", err |-> "nil"]
Finish(result, err) == [done |-> TRUE, result |-> result, err |-> err]

AfterLastProbeNotNil(op, out, last) ==
    IF op = "delete" /\ out.kind = "response"
    THEN Finish("ProRequired", "nil")
    ELSE Finish("NotFound", "nil")

\* No kind was left to try.  tryDelete looks at the last response only:
\* if resp != nil && resp.StatusCode == 403 { pro_required } else not_found
AfterLastProbe(op, out, last) ==
    IF op = "delete" /\ IsResp(out, {403})
    THEN Finish("ProRequired", "nil")
    ELSE Finish("NotFound", "nil")

\* getAsShort / getAsScreenshot / getAsFile: an error is returned; a status
\* other than 200 is (false, nil), so runGet tries the next kind.
GetDecide(out, last) ==
    IF out.kind = "error" THEN Finish("Error", out.err)
    ELSE IF out.status /= 200
    THEN IF last THEN AfterLastProbe("get", out, last) ELSE Continue
    ELSE Finish("Success", "nil")

DeleteDecideKeepGoing(out, last) ==
    IF last
    THEN IF out.kind = "response" /\ out.status \in {204, 200}
         THEN Finish("Success", "nil")
         ELSE AfterLastProbe("delete", out, last)
    ELSE Continue

\* tryDelete: success on err == nil && (204 || 200); anything else, an
\* error included, falls through to the next api.Delete.
DeleteDecide(out, last) ==
    IF out.kind = "response" /\ out.status \in {204, 200}
    THEN Finish("Success", "nil")
    ELSE IF last THEN AfterLastProbe("delete", out, last) ELSE Continue

\* shareFile / shareShort and runShare: only reason "not_found" (a 404)
\* of shareFile leads to shareShort.
ShareDecide(out, last) ==
    IF out.kind = "error" THEN Finish("Error", out.err)
    ELSE IF out.status = 403 THEN Finish("ProRequired", "nil")
    ELSE IF out.status = 404
    THEN IF last THEN AfterLastProbe("share", out, last) ELSE Continue
    ELSE IF out.status /= 200 /\ out.status /= 201 THEN Finish("Error", "status")
    ELSE Finish("Success", "nil")

Decide(op, out, last) ==
    CASE op = "get" -> GetDecide(out, last)
      [] op = "delete" -> DeleteDecide(out, last)
      [] op = "share" -> ShareDecide(out, last)

\* probes: the requests issued so far, each with what it returned;
\* prev: how the previous command on this ID ended; store0: the collections
\* holding the ID when the command started.
IdleFan ==
    [op |-> "none", pc |-> "idle", probes |-> <<>>, result |-> "none",
     err |-> "nil", source |-> "none", prev |-> "none", store0 |-> {}]

FanInit ==
    /\ store \in SUBSET Kinds
    /\ fan = IdleFan

\* The command starts: nothing is requested yet.
StartFanout(op) ==
    /\ fan.pc \in {"idle", "done"}
    /\ fan.prev = "none"
    /\ fan' = [IdleFan EXCEPT !.op = op, !.pc = "probing",
                              !.prev = IF fan.pc = "done"
                                       THEN fan.op \o ":" \o fan.result ELSE "none",
                              !.store0 = store]
    /\ UNCHANGED store

StartFanouts == \E op \in FanOps : StartFanout(op)

\* The next request of the command, what it returns, and the command's code
\* up to its next request or its return.
Probe(out) ==
    /\ fan.pc = "probing"
    /\ LET i == Len(fan.probes) + 1
           k == ProbeOrder(fan.op)[i]
           last == i = Len(ProbeOrder(fan.op))
           d == Decide(fan.op, out, last)
       IN /\ out \in ProbeOutcomes(fan.op, k)
          /\ store' = IF fan.op = "delete" /\ IsResp(out, SuccessCodes("delete"))
                      THEN store \ {k} ELSE store
          /\ fan' = [fan EXCEPT
                       !.probes = Append(@, [kind |-> k, out |-> out]),
                       !.pc = IF d.done THEN "done" ELSE "probing",
                       !.result = d.result,
                       !.err = d.err,
                       !.source = IF d.result = "Success" THEN k ELSE "none"]

Probes ==
    \E out \in {ErrResult(e, "nil") : e \in FanErrors}
                 \cup {Response(st) : st \in {200, 201, 204, 401, 403, 404, 500}} :
        Probe(out)

(***************************************************************************)
(* Concurrent calls of api.Request on the shared *Config                   *)
(***************************************************************************)
NCallers == 2
Callers == 1..NCallers

NoTokens == [IDToken |-> EmptyTok, AccessToken |-> "", RefreshToken |-> ""]

\* The 200 response of the token endpoint to the refresh of goroutine p:
\* a token set of its own, with or without a new refresh token.
TokensOf(p, rotate) ==
    [IDToken |-> JWT("id-" \o ToString(p), Now + 3600),
     AccessToken |-> "a-" \o ToString(p),
     RefreshToken |-> IF rotate THEN "r-" \o ToString(p) ELSE ""]

IdleCaller ==
    [pc |-> "start", observed |-> EmptyTok, sawExpired |-> FALSE,
     sentRefresh |-> "", refreshCalls |-> 0, tokens |-> NoTokens,
     idToken |-> EmptyTok, result |-> NoResult]

\* The shared instance holds a configuration whose ID token the gate
\* treats as expired, or a fresh one.
ConcInit ==
    /\ config \in [BaseURL : {"https://api"},
                   IDToken : {JWT("old", 0), JWT("old", Now + 10), JWT("old", Now + 3600)},
                   AccessToken : {"a-old"}, RefreshToken : {"r-old"}]
    /\ disk = config
    /\ call = IdleCall
    /\ callers = [p \in Callers |-> IdleCaller]

\* Request lines 57-82 up to the call of RefreshTokens: cfg := config.Get()
\* returns the shared pointer, whose fields are read without a lock.
Gate(p) ==
    /\ callers[p].pc = "start"
    /\ callers' = [callers EXCEPT ![p] =
          IF Preflight(config, TRUE) /= "nil"
          THEN [@ EXCEPT !.pc = "done",
                         !.result = ErrResult(Preflight(config, TRUE), "nil")]
          ELSE IF IsTokenExpired(config.IDToken)
          THEN [@ EXCEPT !.pc = "refresh", !.observed = config.IDToken,
                         !.sawExpired = TRUE]
          ELSE [@ EXCEPT !.pc = "sending", !.observed = config.IDToken,
                         !.idToken = config.IDToken]]
    /\ UNCHANGED <<config, disk, call>>

\* RefreshTokens lines 38-57: the refresh token is read from the shared
\* instance and posted to the token endpoint.
RefreshPost(p) ==
    /\ callers[p].pc = "refresh"
    /\ callers' = [callers EXCEPT ![p] =
          IF config.RefreshToken = ""
          THEN [@ EXCEPT !.pc = "done",
                         !.result = ErrResult("AuthExpired", "NoRefreshToken")]
          ELSE [@ EXCEPT !.pc = "posting", !.sentRefresh = config.RefreshToken,
                         !.refreshCalls = @ + 1]]
    /\ UNCHANGED <<config, disk, call>>

\* RefreshTokens lines 57-85: the answer of the token endpoint is decoded.
RefreshAnswer(p, x) ==
    /\ callers[p].pc = "posting"
    /\ callers' = [callers EXCEPT ![p] =
          IF x.kind = "tokens"
          THEN [@ EXCEPT !.pc = "writeID", !.tokens = x.tokens]
          ELSE [@ EXCEPT !.pc = "done",
                         !.result = ErrResult("AuthExpired", x.kind)]]
    /\ UNCHANGED <<config, disk, call>>

\* cfg.IDToken = tokenResp.IDToken
WriteIDToken(p) ==
    /\ callers[p].pc = "writeID"
    /\ config' = [config EXCEPT !.IDToken = callers[p].tokens.IDToken]
    /\ callers' = [callers EXCEPT ![p].pc = "writeAccess"]
    /\ UNCHANGED <<disk, call>>

\* cfg.AccessToken = tokenResp.AccessToken
WriteAccessToken(p) ==
    /\ callers[p].pc = "writeAccess"
    /\ config' = [config EXCEPT !.AccessToken = callers[p].tokens.AccessToken]
    /\ callers' = [callers EXCEPT ![p].pc =
          IF callers[p].tokens.RefreshToken /= "" THEN "writeRefresh" ELSE "save"]
    /\ UNCHANGED <<disk, call>>

\* if tokenResp.RefreshToken != "" { cfg.RefreshToken = tokenResp.RefreshToken }
WriteRefreshToken(p) ==
    /\ callers[p].pc = "writeRefresh"
    /\ config' = [config EXCEPT !.RefreshToken = callers[p].tokens.RefreshToken]
    /\ callers' = [callers EXCEPT ![p].pc = "save"]
    /\ UNCHANGED <<disk, call>>

\* config.SetConfig(cfg): instance = cfg (the same pointer) and Save, which
\* marshals the instance under mu and writes the file; then RefreshTokens
\* returns and Request takes idToken = tokens.IDToken.
SetConfigAndReturn(p) ==
    /\ callers[p].pc = "save"
    /\ disk' = config
    /\ callers' = [callers EXCEPT ![p] =
          [@ EXCEPT !.pc = "sending", !.idToken = callers[p].tokens.IDToken]]
    /\ UNCHANGED <<config, call>>

\* Request lines 84-136: the target request and its response.
CallerResponse(p, x) ==
    /\ callers[p].pc = "sending"
    /\ callers' = [callers EXCEPT ![p] = [@ EXCEPT !.pc = "done", !.result = ResultOf(x)]]
    /\ UNCHANGED <<config, disk, call>>

Gates == \E p \in Callers : Gate(p)
RefreshPosts == \E p \in Callers : RefreshPost(p)
RefreshAnswers ==
    \E p \in Callers :
        \E x \in [kind : {"tokens"}, tokens : {TokensOf(p, r) : r \in BOOLEAN}]
                   \cup [kind : {"status"}, tokens : {NoTokens}] :
            RefreshAnswer(p, x)
WriteIDTokens == \E p \in Callers : WriteIDToken(p)
WriteAccessTokens == \E p \in Callers : WriteAccessToken(p)
WriteRefreshTokens == \E p \in Callers : WriteRefreshToken(p)
SetConfigAndReturns == \E p \in Callers : SetConfigAndReturn(p)
CallerResponses ==
    \E p \in Callers : \E x \in [kind : {"response"}, status : {200, 500}] :
        CallerResponse(p, x)

(***************************************************************************)
(* Package config and the commands login, logout, config set, config reset *)
(***************************************************************************)
\* Config{} : every field at its zero value.
EmptyConfig ==
    [BaseURL |-> "", IDToken |-> EmptyTok, AccessToken |-> "", RefreshToken |-> "",
     LoggedInAt |-> "", DefaultTTL |-> "", Quiet |-> FALSE]

\* The configuration file when a command starts: never written, or written
\* by an earlier login.
StoredConfigs ==
    {EmptyConfig}
      \cup [BaseURL : {"https://api"},
            IDToken : {JWT("old", Now + 10), JWT("old", Now + 3600)},
            AccessToken : {"a-old"}, RefreshToken : {"r-old"},
            LoggedInAt : {"t0"}, DefaultTTL : {"", "7d"}, Quiet : {FALSE}]

AllowedKeys == {"baseurl", "default_ttl", "quiet"}
ProtectedKeys == {"id_token", "access_token", "refresh_token", "logged_in_at"}

IsProtectedKey(key) == key \in ProtectedKeys
IsAllowedKey(key) == key \in AllowedKeys

\* Keys and values given to `config set`.
SetKeys == AllowedKeys \cup ProtectedKeys \cup {"bogus"}
SetValues == {"true", "false", "7d", "7x", "0s", "400d", "https://api", "://bad", "tok"}

\* The characters of a value.
CharsOf(v) ==
    CASE v = "true" -> <<"t", "r", "u", "e">>
      [] v = "false" -> <<"f", "a", "l", "s", "e">>
      [] v = "7d" -> <<"7", "d">>
      [] v = "7x" -> <<"7", "x">>
      [] v = "0s" -> <<"0", "s">>
      [] v = "400d" -> <<"4", "0", "0", "d">>
      [] v = "https://api" -> <<"h", "t", "t", "p", "s", ":", "/", "/", "a", "p", "i">>
      [] v = "://bad" -> <<":", "/", "/", "b", "a", "d">>
      [] v = "tok" -> <<"t", "o", "k">>

\* url.Parse fails on a URL whose first path segment holds a colon and on
\* one without a scheme before "://".
URLParseOK(v) == CharsOf(v)[1] /= ":"

ValidateSetUnchecked(key, value) == "nil"

\* setConfigValue up to the call of config.Set: the error it returns.
ValidateSet(key, value) ==
    IF IsProtectedKey(key) THEN "ProtectedKey"
    ELSE IF ~IsAllowedKey(key) THEN "InvalidKey"
    ELSE IF key = "baseurl" /\ ~URLParseOK(value) THEN "InvalidURL"
    ELSE IF key = "quiet" /\ value /= "true" /\ value /= "false" THEN "InvalidQuiet"
    ELSE IF key = "default_ttl" /\ ~IsValidTTL(CharsOf(value)) THEN "InvalidTTL"
    ELSE "nil"

\* The switch of config.Set.  A token written by hand is not one the
\* server issued.
SetField(cfg, key, value) ==
    CASE key = "baseurl" -> [cfg EXCEPT !.BaseURL = value]
      [] key = "id_token" -> [cfg EXCEPT !.IDToken = GarbageTok]
      [] key = "access_token" -> [cfg EXCEPT !.AccessToken = value]
      [] key = "refresh_token" -> [cfg EXCEPT !.RefreshToken = value]
      [] key = "logged_in_at" -> [cfg EXCEPT !.LoggedInAt = value]
      [] key = "default_ttl" -> [cfg EXCEPT !.DefaultTTL = value]
      [] key = "quiet" -> [cfg EXCEPT !.Quiet = (value = "true")]
      [] OTHER -> cfg

\* 200 responses of the device-token endpoint, decoded into
\* DeviceTokenResponse, and errors of PollForToken.
LoginResponses ==
    [kind : {"tokens"},
     tokens : [IDToken : {EmptyTok, JWT("new", Now + 3600)}, AccessToken : {"a-new"},
               RefreshToken : {"", "r-new"}]]
      \cup [kind : {"denied"}, tokens : {NoTokens}]

\* before is the configuration the process loaded from the file; cleared
\* tells that the file was cleared by logout or reset and that no login has
\* been stored since.
IdleCmd ==
    [op |-> "none", pc |-> "idle", key |-> "", value |-> "", result |-> "nil",
     before |-> EmptyConfig, cleared |-> FALSE]

ConfigInit ==
    /\ disk \in StoredConfigs
    /\ config = disk
    /\ call = IdleCall
    /\ mu = "free"
    /\ cmd = IdleCmd

\* A process starts when the previous one has ended; config.Load reads the
\* file into the instance, and no Request of the process has been made.
CanStart == cmd.pc \in {"idle", "done"} /\ call.pc \in {"idle", "done"}

\* SetConfig / Clear: the instance is replaced under mu, mu is released and
\* Save writes the instance to the file, or fails with an I/O error.
StoreAndSave(op, cfg, saveOK) ==
    /\ config' = cfg
    /\ disk' = IF saveOK THEN cfg ELSE disk
    /\ mu' = "free"
    /\ cmd' = [IdleCmd EXCEPT !.op = op, !.pc = "done", !.before = disk,
                              !.result = IF saveOK THEN "nil" ELSE "SaveError",
                              !.cleared = IF ~saveOK THEN cmd.cleared
                                          ELSE IF op \in {"logout", "reset"} THEN TRUE
                                          ELSE IF op = "login" THEN FALSE
                                          ELSE cmd.cleared]

NoChange(op, result) ==
    /\ config' = disk
    /\ cmd' = [IdleCmd EXCEPT !.op = op, !.pc = "done", !.before = disk,
                              !.result = result, !.cleared = cmd.cleared]
    /\ UNCHANGED <<disk, mu>>

\* runLogin
Login(x, saveOK) ==
    /\ CanStart
    /\ IF x.kind /= "tokens" THEN NoChange("login", x.kind)
       ELSE StoreAndSave("login",
                [disk EXCEPT !.BaseURL = "https://api",
                             !.IDToken = x.tokens.IDToken,
                             !.AccessToken = x.tokens.AccessToken,
                             !.RefreshToken = x.tokens.RefreshToken,
                             !.LoggedInAt = "t1"],
                saveOK)
    /\ call' = IdleCall

\* auth.RefreshTokens, called by a command whose stored token is expired
Refresh(x) ==
    /\ CanStart
    /\ IF disk.RefreshToken = "" THEN NoChange("refresh", "NoRefreshToken")
       ELSE IF x.kind /= "tokens" THEN NoChange("refresh", x.kind)
       ELSE StoreAndSave("refresh", UpdatedConfig(disk, x.tokens), x.saveOK)
    /\ call' = IdleCall

\* runLogout
Logout(saveOK) ==
    /\ CanStart
    /\ IF disk.BaseURL = "" THEN NoChange("logout", "NotLoggedIn")
       ELSE StoreAndSave("logout", EmptyConfig, saveOK)
    /\ call' = IdleCall

\* resetConfig
ResetConfig(confirmed, saveOK) ==
    /\ CanStart
    /\ IF ~confirmed THEN NoChange("reset", "Cancelled")
       ELSE StoreAndSave("reset", EmptyConfig, saveOK)
    /\ call' = IdleCall

\* setConfigValue and config.Set up to its call of Save: Set takes mu,
\* assigns the field and calls Save while it holds mu (the deferred Unlock
\* runs when Set returns).  Save starts with mu.Lock().
ConfigSet(key, value) ==
    /\ CanStart
    /\ IF ValidateSet(key, value) /= "nil"
       THEN NoChange("set", ValidateSet(key, value))
       ELSE /\ config' = SetField(disk, key, value)
            /\ mu' = "Set"
            /\ cmd' = [IdleCmd EXCEPT !.op = "set", !.pc = "saveLock", !.key = key,
                                      !.value = value, !.before = disk,
                                      !.cleared = cmd.cleared]
            /\ UNCHANGED disk
    /\ call' = IdleCall

\* A process that waits for a lock it holds itself is ended from outside
\* (by the runtime's deadlock detector or by the user); what it held in
\* memory is lost.
Killed ==
    /\ cmd.pc = "saveLock"
    /\ mu /= "free"
    /\ config' = disk
    /\ mu' = "free"
    /\ cmd' = [cmd EXCEPT !.pc = "done", !.result = "killed"]
    /\ UNCHANGED <<disk, call>>

\* A process of a command that calls the API starts: config.Load reads the
\* file into the instance (what an earlier process held in memory is gone).
Load ==
    /\ CanStart
    /\ config /= disk
    /\ config' = disk
    /\ call' = IdleCall
    /\ UNCHANGED <<disk, mu, cmd>>

\* A Request of a command's process: the first one is made on the
\* configuration loaded from the file.
CommandRequest(opts) ==
    /\ cmd.pc \in {"idle", "done"}
    /\ call.pc = "idle" => config = disk
    /\ BeginRequest(opts)
    /\ UNCHANGED <<mu, cmd>>

\* The options of api.Get, api.GetNoAuth and of a call without options.
CommandOptions ==
    {opts \in RequestOptions :
        opts.Method \in {"", "GET"} /\ opts.Body = "nil" /\ opts.Headers = "nil"}

CommandRequests == \E opts \in CommandOptions : CommandRequest(opts)

\* `config set` of the base URL or of a token, between other commands
SessionSets ==
    \E key \in {"baseurl", "id_token"}, value \in {"https://api", "tok"} :
        ConfigSet(key, value)

Logins == \E x \in LoginResponses, saveOK \in BOOLEAN : Login(x, saveOK)
Refreshes == \E x \in RefreshExchanges : Refresh(x)
Logouts == \E saveOK \in BOOLEAN : Logout(saveOK)
ResetConfigs == \E confirmed \in BOOLEAN, saveOK \in BOOLEAN : ResetConfig(confirmed, saveOK)
ConfigSets == \E key \in SetKeys, value \in SetValues : ConfigSet(key, value)

(***************************************************************************)
(* handleFileUpload: init request, UploadParts, complete request           *)
(***************************************************************************)
\* inits / completes count the POSTs to /shorts/file/init and
\* /shorts/file/complete; manifest is the "parts" of the complete request.
IdleHF ==
    [pc |-> "start", inits |-> 0, completes |-> 0, manifest |-> <<>>,
     result |-> "nil"]

\* What api.Post("/shorts/file/init") and the decoding of its body yield:
\* an error of the executor, a status other than 201, an undecodable body,
\* or 201 with the plan and the part size.
InitFailures == {"initExecError", "initStatus", "initDecodeError"}

InitResponses ==
    [kind : InitFailures,
     args : {[plan |-> <<>>, partSize |-> 0, fileLen |-> 0, onProgress |-> FALSE]}]
      \cup [kind : {"created"}, args : {a \in UploadArgs : a.onProgress}]

\* What api.Post("/shorts/file/complete") yields.
CompleteResponses == {"execError", "status", "ok"}

\* Lines 166-222: the init request; on 201 the presigned URLs are copied
\* and UploadParts is called with the file's bytes and a progress callback.
InitRequest(x) ==
    /\ hf.pc = "start"
    /\ IF x.kind /= "created"
       THEN /\ hf' = [hf EXCEPT !.pc = "done", !.inits = @ + 1, !.result = x.kind]
            /\ UNCHANGED <<plan, partSize, fileLen, onProgress, g, partData>>
       ELSE /\ hf' = [hf EXCEPT !.pc = "uploading", !.inits = @ + 1]
            /\ plan' = x.args.plan
            /\ partSize' = x.args.partSize
            /\ fileLen' = x.args.fileLen
            /\ onProgress' = x.args.onProgress
            /\ g' = [k \in 1..Len(x.args.plan) |-> IdleG]
            /\ partData' = [k \in 1..Len(x.args.plan) |-> NoData]
    /\ UNCHANGED <<upc, bi, results, nCollected, completedParts, ret,
                   completedBytes, progress>>

InitRequests == \E x \in InitResponses : InitRequest(x)

ProceedsToCompleteAlways(r) == TRUE

\* if err != nil { s.Stop(); return err } after UploadParts
ProceedsToComplete(r) == r.status = "ok"

\* UploadParts has returned: handleFileUpload returns its error, or posts
\* the complete request with the returned parts.
AfterUploadParts ==
    /\ hf.pc = "uploading"
    /\ upc = "returned"
    /\ hf' = IF ProceedsToComplete(ret)
             THEN [hf EXCEPT !.pc = "completing", !.completes = @ + 1,
                             !.manifest = ret.parts]
             ELSE [hf EXCEPT !.pc = "done", !.result = "uploadError"]
    /\ UNCHANGED uvars

\* The answer to the complete request: the rest of handleFileUpload.
CompleteResponse(x) ==
    /\ hf.pc = "completing"
    /\ hf' = [hf EXCEPT !.pc = "done", !.result = x]
    /\ UNCHANGED uvars

CompleteResponsesArrive == \E x \in CompleteResponses : CompleteResponse(x)

\* UploadParts runs between the init request and the complete request.
Uploading == hf.pc = "uploading"

(***************************************************************************)
(* runList: three fetches in parallel, received in a fixed order           *)
(***************************************************************************)
MaxItems == 2

\* shorts := <-shortsChan; screenshots := <-screenshotsChan; files := <-filesChan
ListOrder == <<"short", "screenshot", "file">>

\* The items fetchShorts / fetchScreenshots / fetchFiles build from a 200
\* response listing n items.
ItemsOf(k, n) == [i \in 1..n |-> [Source |-> k, ID |-> i]]

\* api.Get fails, answers a status other than 200, answers a body that
\* does not decode, or answers the list.
FetchOutcomes == {"error", "status", "decodeError", "ok"}

\* if err != nil || resp.StatusCode != 200 { return nil } ... return items
FetchResult(k, n, outcome) == IF outcome = "ok" THEN ItemsOf(k, n) ELSE <<>>

CombinedFilesFirst(shorts, screenshots, files) == files \o shorts \o screenshots

\* allItems := append(append(shorts, screenshots...), files...)
Combined(shorts, screenshots, files) == shorts \o screenshots \o files

\* --limit: not given, a positive number, or anything else
Limits == {"none", "valid", "invalid"}

IdleFetch == [pc |-> "idle", outcome |-> "none", items |-> <<>>]

\* server: the number of items the server holds per collection;
\* fetch: per collection, the goroutine that fetches it and sends the
\* result on its unbuffered channel; next: the receive runList is at;
\* finished: the collections in the order their fetches returned.
IdleList ==
    [pc |-> "idle", server |-> [k \in Kinds |-> 0], limit |-> "none",
     fetch |-> [k \in Kinds |-> IdleFetch], next |-> 1,
     got |-> [k \in Kinds |-> <<>>], finished |-> <<>>, allItems |-> <<>>,
     result |-> "none"]

ListInit ==
    \E server \in [Kinds -> 0..MaxItems], limit \in Limits :
        ls = [IdleList EXCEPT !.server = server, !.limit = limit]

\* runList up to the first receive: the channels are made and the three
\* goroutines started.
ListStart ==
    /\ ls.pc = "idle"
    /\ ls' = [ls EXCEPT !.pc = "receiving",
                        !.fetch = [k \in Kinds |-> [IdleFetch EXCEPT !.pc = "fetching"]]]

\* The fetch function of collection k returns; its goroutine now blocks in
\* the send on the unbuffered channel until runList receives from it.
FetchReturns(k, outcome) ==
    /\ ls.pc = "receiving"
    /\ ls.fetch[k].pc = "fetching"
    /\ ls' = [ls EXCEPT !.fetch[k] = [pc |-> "sending", outcome |-> outcome,
                                      items |-> FetchResult(k, ls.server[k], outcome)],
                        !.finished = Append(@, k)]

FetchesReturn == \E k \in Kinds, outcome \in FetchOutcomes : FetchReturns(k, outcome)

\* runList receives from the channel it waits on, once its goroutine is
\* sending; after the third receive it combines the lists and goes on to
\* the filters, the sort and the limit.
Receive ==
    /\ ls.pc = "receiving"
    /\ LET k == ListOrder[ls.next]
           got == [ls.got EXCEPT ![k] = ls.fetch[k].items]
       IN /\ ls.fetch[k].pc = "sending"
          /\ IF ls.next < Len(ListOrder)
             THEN ls' = [ls EXCEPT !.fetch[k].pc = "done", !.got = got,
                                   !.next = ls.next + 1]
             ELSE ls' = [ls EXCEPT !.fetch[k].pc = "done", !.got = got,
                                   !.next = ls.next + 1,
                                   !.pc = "done",
                                   !.allItems = Combined(got["short"], got["screenshot"],
                                                         got["file"]),
                                   !.result = IF ls.limit = "invalid"
                                              THEN "InvalidLimit" ELSE "nil"]

(***************************************************************************)
(* auth.PollForToken                                                       *)
(***************************************************************************)
MaxPolls == 3

\* The interval argument, in seconds (the "interval" of the device
\* authorization response).
PollIntervals == {-1, 0, 1, 5}

\* The error codes of the token endpoint; "" is no code.
PollCodes == {"", "authorization_pending", "slow_down", "access_denied", "expired_token"}

\* An answer carries its code in the field "error", in the field
\* "error_code", or in both.
PollPlaces == {"error", "error_code", "both"}

\* What one POST to /token yields: an error of client.Do, of the read of the
\* body or of json.Unmarshal, or a decoded DeviceTokenResponse.
PollAnswers ==
    [kind : {"doError", "readError", "decodeError"}, status : {0}, Error : {""},
     ErrorCode : {""}]
      \cup {[kind |-> "response", status |-> 200, Error |-> "", ErrorCode |-> ""]}
      \cup {[kind |-> "response", status |-> 400,
             Error |-> IF pl \in {"error", "both"} THEN c ELSE "",
             ErrorCode |-> IF pl \in {"error_code", "both"} THEN c ELSE ""] :
                c \in PollCodes, pl \in PollPlaces}

InitialIntervalAsGiven(interval) == interval

\* pollInterval := interval seconds; if pollInterval < time.Second { 2s }
InitialInterval(interval) == IF interval < 1 THEN 2 ELSE interval

PollKeep(interval) == [continue |-> TRUE, interval |-> interval, result |-> "none"]
PollReturn(interval, result) ==
    [continue |-> FALSE, interval |-> interval, result |-> result]

AfterAnswerNoSlowDown(a, interval) ==
    IF a.kind /= "response" THEN PollReturn(interval, a.kind)
    ELSE IF a.status = 200 THEN PollReturn(interval, "tokens")
    ELSE IF a.Error \in {"authorization_pending", "slow_down"}
            \/ a.ErrorCode = "authorization_pending"
    THEN PollKeep(interval)
    ELSE PollReturn(interval, "loginFailed")

\* The loop body after the POST: what the answer makes PollForToken do.
AfterAnswer(a, interval) ==
    IF a.kind /= "response" THEN PollReturn(interval, a.kind)
    ELSE IF a.status = 200 THEN PollReturn(interval, "tokens")
    ELSE IF a.Error = "authorization_pending" \/ a.ErrorCode = "authorization_pending"
    THEN PollKeep(interval)
    ELSE IF a.Error = "slow_down" THEN PollKeep(interval + 5)
    ELSE PollReturn(interval, "loginFailed")

\* interval0: the argument; interval: pollInterval; slept: the sleeps made
\* before each POST; answers: what the POSTs yielded.
IdlePoll ==
    [pc |-> "idle", interval0 |-> 0, interval |-> 0, slept |-> <<>>,
     answers |-> <<>>, result |-> "none"]

\* PollForToken(deviceCode, interval) up to the loop
PollStart(interval) ==
    /\ poll.pc = "idle"
    /\ poll' = [IdlePoll EXCEPT !.pc = "polling", !.interval0 = interval,
                                !.interval = InitialInterval(interval)]

PollStarts == \E interval \in PollIntervals : PollStart(interval)

\* One iteration of the loop: time.Sleep(pollInterval), the POST and the
\* handling of its answer.
PollOnce(a) ==
    /\ poll.pc = "polling"
    /\ Len(poll.answers) < MaxPolls
    /\ LET d == AfterAnswer(a, poll.interval)
       IN poll' = [poll EXCEPT !.slept = Append(@, poll.interval),
                               !.answers = Append(@, a),
                               !.interval = d.interval,
                               !.pc = IF d.continue THEN "polling" ELSE "returned",
                               !.result = d.result]

PollsOnce == \E a \in PollAnswers : PollOnce(a)

(***************************************************************************)
(* Properties of the multipart upload engine (SpecUpload)                  *)
(***************************************************************************)
PlanParts == {plan[k] : k \in 1..Len(plan)}
InFlight == {k \in 1..Len(plan) : g[k].pc = "run"}
CollectedParts == {completedParts[i] : i \in 1..Len(completedParts)}
ChannelParts == {results[i].part : i \in 1..Len(results)}
ChannelErrs == {results[i].err : i \in 1..Len(results)}
ExhaustedParts == {k \in 1..Len(plan) : g[k].pc = "done" /\ g[k].res = "err"}

\* C1: a successful UploadParts returns a manifest that is strictly
\* ascending by part number and holds exactly one completed-part entry (the
\* part's number with the ETag of its upload) for each part of the plan.
C1_ManifestSortedComplete ==
    ret.status = "ok" =>
        /\ ~ret.partsNil
        /\ Len(ret.parts) = Len(plan)
        /\ \A i \in 1..(Len(ret.parts) - 1) :
               ret.parts[i].PartNumber < ret.parts[i + 1].PartNumber
        /\ {ret.parts[i].PartNumber : i \in 1..Len(ret.parts)} = PlanParts
        /\ \A i \in 1..Len(ret.parts) :
               ret.parts[i].ETag = ETagOf(ret.parts[i].PartNumber)

\* a descending plan of at least three parts was uploaded and returned
C1_Witness ==
    /\ ret.status = "ok"
    /\ Len(plan) >= 3
    /\ plan[1] > plan[2]
    /\ ret.parts[1].PartNumber = plan[Len(plan)]

\* C2: at every instant at most 2 part uploads are in flight (their
\* goroutine started and uploadPart not yet returned).
C2_AtMostTwoInFlight == Cardinality(InFlight) <= 2

\* two uploads of a later batch are in flight, one of them retrying
C2_Witness ==
    /\ Cardinality(InFlight) = 2
    /\ \E k \in InFlight : k >= 3 /\ g[k].tries >= 1

\* C3: no upload of a part of a later batch is started before every part
\* of every earlier batch has succeeded and its result was received.
C3_BatchesStrictlyOrdered ==
    \A k \in 1..Len(plan) :
        g[k].pc /= "idle" =>
            \A j \in 1..Len(plan) :
                BatchOf(j) < BatchOf(k) =>
                    /\ g[j].pc = "done"
                    /\ g[j].res = "ok"
                    /\ [PartNumber |-> plan[j], ETag |-> ETagOf(plan[j])] \in CollectedParts

\* a part of the third batch is being attempted
C3_Witness ==
    /\ Len(plan) >= 5
    /\ g[5].pc = "run"
    /\ g[5].tries >= 1

\* C4: uploadPart makes at most 8 attempts; another attempt follows only a
\* failed one; a success ends the upload with the part's ETag; after 8
\* failures the error is UploadPartFailed carrying the last attempt's error.
C4_RetryBudget ==
    \A k \in 1..Len(plan) :
        /\ g[k].tries <= 8
        /\ g[k].pc = "idle" => g[k].tries = 0
        /\ g[k].pc = "run" =>
              /\ g[k].attempt < 8
              /\ g[k].tries = g[k].attempt
              /\ g[k].tries > 0 => g[k].lastOutcome \in FailKinds
        /\ (g[k].pc = "done" /\ g[k].res = "ok") =>
              /\ g[k].lastOutcome = "ok"
              /\ [PartNumber |-> plan[k], ETag |-> ETagOf(plan[k])]
                    \in CollectedParts \cup ChannelParts
        /\ (g[k].pc = "done" /\ g[k].res = "err") =>
              /\ g[k].tries = 8
              /\ g[k].lastOutcome \in FailKinds
              /\ UploadPartFailed(plan[k], 8, g[k].lastOutcome)
                    \in ChannelErrs \cup {ret.err}

\* a part failed 8 times, the last time with a 200 response without ETag
C4_Witness ==
    \E k \in 1..Len(plan) :
        /\ g[k].pc = "done"
        /\ g[k].res = "err"
        /\ g[k].tries = 8
        /\ ret.err = UploadPartFailed(plan[k], 8, "noetag")

\* C5: UploadParts returns a complete manifest and no error, or an error
\* and no manifest; once a part has exhausted its attempts the result is
\* never a manifest.
C5_AllOrNothing ==
    /\ upc = "returned" =>
          \/ /\ ret.status = "ok"
             /\ ret.err = NoErr
             /\ ~ret.partsNil
             /\ Len(ret.parts) = Len(plan)
          \/ /\ ret.status = "err"
             /\ ret.err.kind /= "nil"
             /\ ret.partsNil
             /\ ret.parts = <<>>
    /\ (upc = "returned" /\ ExhaustedParts /= {}) => ret.status = "err"
    /\ (upc /= "returned" /\ ExhaustedParts /= {}) => ret.status = "pending"

\* an error was returned after the parts of an earlier batch had succeeded
C5_Witness ==
    /\ upc = "returned"
    /\ ret.status = "err"
    /\ Len(completedParts) >= 2
    /\ ExhaustedParts /= {}

\* C6: once a part has exhausted its 8 attempts no part of a later batch is
\* ever started; with 5 parts of which part 3 fails, part 5 is never
\* uploaded and UploadParts returns UploadPartFailed without a manifest.
C6_NoLaterBatchAfterExhaustion ==
    \A k \in ExhaustedParts :
        /\ \A j \in 1..Len(plan) : BatchOf(j) > BatchOf(k) => g[j] = IdleG
        /\ upc = "returned" =>
              /\ ret.status = "err"
              /\ ret.err.kind = "UploadPartFailed"
              /\ ret.partsNil

\* the 5-part plan 1..5: part 3 failed all attempts and UploadParts returned
C6_Witness ==
    /\ plan = AscPlan(5)
    /\ 3 \in ExhaustedParts
    /\ upc = "returned"
    /\ ret.err.part = 3
    /\ g[5] = IdleG

\* The plan's parts are 1..n and reach the end of the buffer.
CoversBuffer ==
    /\ PlanParts = 1..Len(plan)
    /\ Len(plan) * partSize >= fileLen

\* C21: the progress callback is called once for each part received
\* successfully by the collecting loop (and by nothing else); call i reports
\* i completed parts, the byte count never decreases, neither count exceeds
\* its total, and a successful upload of a plan that covers the buffer ends
\* with the call (totalParts, totalParts, totalBytes, totalBytes).
C21_ProgressMonotone ==
    /\ Len(progress) = IF onProgress THEN Len(completedParts) ELSE 0
    /\ \A i \in 1..Len(progress) :
          /\ progress[i].completed = i
          /\ progress[i].total = Len(plan)
          /\ progress[i].totalBytes = fileLen
          /\ progress[i].completed <= progress[i].total
          /\ progress[i].completedBytes <= progress[i].totalBytes
          /\ i > 1 => progress[i].completedBytes >= progress[i - 1].completedBytes
    /\ (ret.status = "ok" /\ onProgress /\ Len(plan) > 0 /\ CoversBuffer)
          => progress[Len(progress)] =
                [completed |-> Len(plan), total |-> Len(plan),
                 completedBytes |-> fileLen, totalBytes |-> fileLen]

\* five parts of a buffer ending with a half part were uploaded; the half
\* part was reported first
C21_Witness ==
    /\ ret.status = "ok"
    /\ Len(plan) = 5
    /\ CoversBuffer
    /\ fileLen = 5 * partSize - partSize \div 2
    /\ Len(progress) = 5
    /\ progress[1].completedBytes = partSize \div 2
    /\ progress[5].completedBytes = fileLen

\* The plan is 1..n with n = ceil(len / partSize).
ContiguousPlan ==
    /\ PlanParts = 1..Len(plan)
    /\ (Len(plan) - 1) * partSize < fileLen
    /\ fileLen <= Len(plan) * partSize

\* The part indices whose goroutine has taken its slice of the buffer.
Started == {k \in 1..Len(plan) : g[k].pc /= "idle"}

\* C22: for a contiguous plan of ceil(len / partSize) parts, part p uploads
\* the bytes [(p-1)*partSize, min(p*partSize, len)): the ranges are pairwise
\* disjoint, start at 0, end at len and follow each other; every part but
\* the last has size partSize; the declared length is the range's size.
C22_PartByteRanges ==
    ContiguousPlan =>
        /\ \A k \in Started :
              /\ partData[k].start = (plan[k] - 1) * partSize
              /\ partData[k].end = Min(plan[k] * partSize, fileLen)
              /\ partData[k].contentLength = partData[k].end - partData[k].start
              /\ plan[k] /= Len(plan) => partData[k].contentLength = partSize
              /\ plan[k] = 1 => partData[k].start = 0
              /\ plan[k] = Len(plan) => partData[k].end = fileLen
        /\ \A k, j \in Started :
              /\ k /= j => \/ partData[k].end <= partData[j].start
                           \/ partData[j].end <= partData[k].start
              /\ plan[j] = plan[k] + 1 => partData[j].start = partData[k].end
        /\ \A i \in 1..Len(results) :
              \E k \in Started :
                 /\ plan[k] = results[i].part.PartNumber
                 /\ results[i].size = partData[k].contentLength

\* all five parts of a buffer of four and a half parts have been sliced
C22_Witness ==
    /\ ContiguousPlan
    /\ Len(plan) = 5
    /\ fileLen = 4 * partSize + partSize \div 2
    /\ Started = 1..5
    /\ \A k \in 1..5 :
          partData[k].contentLength = IF plan[k] = 5 THEN partSize \div 2 ELSE partSize

\* The goroutines whose latest attempt failed and that go on to another one.
Retrying == {k \in 1..Len(plan) : g[k].pc = "run" /\ g[k].tries >= 1}

\* C23: a 200 response without an ETag is a failed attempt like a non-200
\* response: it counts as one attempt, and the next attempt comes after the
\* delay that follows a non-200 response (retryDelayMS x attempts so far).
C23_NoETagRetriedWithBackoff ==
    \A k \in Retrying :
        g[k].lastOutcome = "noetag" =>
            /\ g[k].attempt = g[k].tries
            /\ g[k].slept = retryDelayMS * g[k].attempt

\* C24: the k-th failed attempt (k = 1..7) is followed by a delay of
\* baseDelay x k, baseDelay being retryDelayMS, tripled after a
\* connection-reset/pipe/timeout error; the 8th failed attempt is followed
\* by no delay.
C24_LinearBackoffBetweenAttempts ==
    \A k \in 1..Len(plan) :
        /\ k \in Retrying =>
              g[k].slept = (IF g[k].lastOutcome = "conn" THEN 3 * retryDelayMS
                            ELSE retryDelayMS) * g[k].attempt
        /\ (g[k].pc = "done" /\ g[k].res = "err") => g[k].slept = 0

\* C34: when UploadParts has returned, with a manifest or with an error, no
\* part upload of the invocation is in flight (a goroutine that still runs
\* uploadPart goes on making PUT attempts).
C34_NothingInFlightAfterReturn ==
    upc = "returned" => InFlight = {}

(***************************************************************************)
(* Properties of handleFileUpload (SpecFileUpload)                         *)
(***************************************************************************)
\* C27: one init request at most, and none after the plan was received;
\* parts are uploaded only after the init request; the complete request is
\* issued at most once, only after UploadParts returned successfully with
\* every part of the plan uploaded, and carries the full manifest in
\* ascending order; it is not issued after an init or an upload failure.
C27_InitUploadComplete ==
    /\ hf.inits = IF hf.pc = "start" THEN 0 ELSE 1
    /\ hf.completes <= 1
    /\ Started /= {} => hf.inits = 1
    /\ hf.completes = 1 =>
          /\ ret.status = "ok"
          /\ hf.manifest = ret.parts
          /\ \A k \in 1..Len(plan) : g[k].pc = "done" /\ g[k].res = "ok"
          /\ {hf.manifest[i].PartNumber : i \in 1..Len(hf.manifest)} = PlanParts
          /\ Len(hf.manifest) = Len(plan)
          /\ \A i \in 1..(Len(hf.manifest) - 1) :
                 hf.manifest[i].PartNumber < hf.manifest[i + 1].PartNumber
    /\ hf.result \in InitFailures => (hf.completes = 0 /\ Started = {})
    /\ ret.status = "err" => hf.completes = 0

\* a descending plan of three parts was uploaded and completed
C27_Witness ==
    /\ hf.pc = "done"
    /\ hf.result = "ok"
    /\ hf.inits = 1
    /\ hf.completes = 1
    /\ plan = DescPlan(3)
    /\ Len(hf.manifest) = 3
    /\ hf.manifest[1].PartNumber = 1

(***************************************************************************)
(* Properties of the authenticated request executor (SpecExec)             *)
(***************************************************************************)
\* C7: when the stored ID token is expired and the target request is sent,
\* exactly one refresh was made, it completed before the request was issued,
\* and the request's Authorization header carries the ID token that refresh
\* returned.
C7_HeaderCarriesRefreshedToken ==
    (call.wasExpired /\ call.sent >= 1) =>
        /\ call.refreshCalls = 1
        /\ call.refreshDoneAtSend
        /\ call.header = Bearer(call.refreshTok)

\* C32: every target request sent with requireAuth true carries an
\* Authorization header whose bearer token is non-empty and is not expired
\* according to the token validity gate, also when it came from a refresh.
C32_AuthenticatedRequestCarriesValidToken ==
    (call.requireAuth /\ call.sent >= 1) =>
        /\ call.header.present
        /\ call.header.token.kind /= "empty"
        /\ ~IsTokenExpired(call.header.token)

\* C33: a Request whose options have RequireAuth = false is unauthenticated
\* whatever the other option fields are: no refresh, no NotConfigured or
\* NotAuthenticated error, and the default base URL when none is stored.
C33_RequireAuthFalseIsUnauthenticated ==
    (call.pc /= "idle" /\ ~call.opts.isNil /\ ~call.opts.RequireAuth) =>
        /\ ~call.requireAuth
        /\ call.refreshCalls = 0
        /\ call.result.err \notin {"NotConfigured", "NotAuthenticated"}
        /\ call.cfg0.BaseURL = "" => call.baseURL = "default"

\* C35: a RefreshTokens call that returns an error leaves the in-memory ID,
\* access and refresh tokens as they were before the call.
C35_FailedRefreshLeavesCredentials ==
    call.refreshed = "failed" =>
        /\ config.IDToken = call.cfg0.IDToken
        /\ config.AccessToken = call.cfg0.AccessToken
        /\ config.RefreshToken = call.cfg0.RefreshToken

\* C8: when the refresh fails, the call ends with AuthExpired wrapping the
\* refresh error, the target request is not sent and no second refresh is
\* made.
C8_RefreshFailureIsAuthExpired ==
    call.refreshed = "failed" =>
        /\ call.pc = "done"
        /\ call.refreshErr /= "nil"
        /\ call.result = ErrResult("AuthExpired", call.refreshErr)
        /\ call.sent = 0
        /\ call.header = NoHeader
        /\ call.refreshCalls = 1
        /\ call.refreshPosts <= 1

\* the token endpoint answered the refresh with a non-200 status
C8_Witness ==
    /\ call.refreshed = "failed"
    /\ call.refreshErr = "status"
    /\ call.refreshPosts = 1
    /\ call.result.err = "AuthExpired"

\* C9: with requireAuth, a call fails with NotConfigured when no base URL
\* is stored (whatever tokens are stored) and with NotAuthenticated when a
\* base URL is stored but no ID token; neither a refresh nor a request is
\* made.
C9_NotConfiguredNotAuthenticated ==
    (call.pc /= "idle" /\ call.requireAuth) =>
        /\ call.cfg0.BaseURL = "" =>
              /\ call.pc = "done"
              /\ call.result = ErrResult("NotConfigured", "nil")
              /\ call.refreshCalls = 0 /\ call.refreshPosts = 0 /\ call.sent = 0
        /\ (call.cfg0.BaseURL /= "" /\ call.cfg0.IDToken.kind = "empty") =>
              /\ call.pc = "done"
              /\ call.result = ErrResult("NotAuthenticated", "nil")
              /\ call.refreshCalls = 0 /\ call.refreshPosts = 0 /\ call.sent = 0

\* NotConfigured although a valid ID token and a refresh token are stored
C9_Witness ==
    /\ call.pc = "done"
    /\ call.requireAuth
    /\ config.BaseURL = ""
    /\ ~IsTokenExpired(config.IDToken)
    /\ config.RefreshToken /= ""
    /\ call.result.err = "NotConfigured"

\* C10: a call issues at most one target request; when the exchange
\* completes the response is the result, with its status unchanged, for
\* every status; an error is the result only when no response was obtained.
C10_OneAttemptStatusPassedThrough ==
    /\ call.sent <= 1
    /\ (call.pc = "done" /\ call.exchange = "response") =>
          call.result = Response(call.exStatus)
    /\ call.result.kind = "response" =>
          /\ call.sent = 1
          /\ call.exchange = "response"
          /\ call.result.status = call.exStatus
    /\ call.result.kind = "error" => call.exchange /= "response"

\* a 500 response is returned as the result of the call
C10_Witness ==
    /\ call.pc = "done"
    /\ call.sent = 1
    /\ call.exchange = "response"
    /\ call.result = Response(500)

C25_OnlyRefreshWritesCredentials ==
    /\ [][(config' /= config \/ disk' /= disk)
             => (call.pc = "refreshing" /\ call.refreshCalls = 1)]_vars
    /\ []((call.wasExpired /\ call.sent >= 1)
             => /\ call.refreshed = "ok"
                /\ config.IDToken = call.refreshTok
                /\ disk = config)

\* a call refreshed the expired token and got its response: the new token
\* is in the configuration and in the file
C25_Witness ==
    /\ call.pc = "done"
    /\ call.wasExpired
    /\ call.refreshed = "ok"
    /\ call.result.kind = "response"
    /\ call.refreshTok /= call.cfg0.IDToken
    /\ config.IDToken = call.refreshTok
    /\ disk = config

(***************************************************************************)
(* Properties of the pure functions (SpecPure)                             *)
(***************************************************************************)
\* C12: IsTokenExpired is true for an empty token, an undecodable token and
\* a token without expiry claim; otherwise it is true exactly when
\* exp < now + 60: true for now+30, false for now+120 and for now+60.
C12_ExpiredIffWithinBuffer ==
    (pure.fn = "IsTokenExpired" /\ pure.done) =>
        /\ pure.tok.kind \in {"empty", "garbage"} => pure.expired
        /\ (pure.tok.kind = "jwt" /\ pure.tok.exp = 0) => pure.expired
        /\ (pure.tok.kind = "jwt" /\ pure.tok.exp /= 0) =>
              (pure.expired <=> pure.tok.exp < Now + 60)
        /\ pure.tok = JWT("u", Now + 30) => pure.expired
        /\ pure.tok = JWT("u", Now + 120) => ~pure.expired
        /\ pure.tok = JWT("u", Now + 60) => ~pure.expired

\* the gate was applied to a token expiring in exactly 60 seconds
C12_Witness ==
    /\ pure.fn = "IsTokenExpired"
    /\ pure.done
    /\ pure.tok = JWT("u", Now + 60)
    /\ ~pure.expired

\* the unit's ceiling and its length in seconds
CeilingOf(u) ==
    CASE u = "s" -> 31536000 [] u = "m" -> 525600 [] u = "h" -> 8760 [] u = "d" -> 365
SecondsOf(u) ==
    CASE u = "s" -> 1 [] u = "m" -> 60 [] u = "h" -> 3600 [] u = "d" -> 86400

\* the input is <digits><unit> with a unit among s, m, h, d
WellFormedTTL(in) ==
    /\ in.prefix = <<>>
    /\ in.num.val >= 0
    /\ in.suffix \in {<<"s">>, <<"m">>, <<"h">>, <<"d">>}

\* C13: for <digits><unit>, ParseTTL succeeds exactly when
\* 1 <= value <= the unit's ceiling, and returns value x the unit's seconds;
\* every other string fails; a successful result is in 1..31,536,000.
C13_ParseTTLExact ==
    (pure.fn = "ParseTTL" /\ pure.done) =>
        /\ WellFormedTTL(pure.in) =>
              LET u == pure.in.suffix[1]
                  v == pure.in.num.val
              IN /\ pure.ttl.ok <=> (1 <= v /\ v <= CeilingOf(u))
                 /\ pure.ttl.ok => pure.ttl.seconds = v * SecondsOf(u)
        /\ ~WellFormedTTL(pure.in) => ~pure.ttl.ok
        /\ pure.ttl.ok => (1 <= pure.ttl.seconds /\ pure.ttl.seconds <= 31536000)
        /\ ~pure.ttl.ok => (pure.ttl.err /= "nil" /\ pure.ttl.seconds = 0)

\* "365d" was parsed to 31,536,000 seconds
C13_Witness ==
    /\ pure.fn = "ParseTTL"
    /\ pure.done
    /\ TTLString(pure.in) = <<"3", "6", "5", "d">>
    /\ pure.ttl = TTLOk(31536000)

\* C30: with --permanent the add request carries no ttl, whatever the
\* content kind (text, file, screenshot or clipboard image).
C30_PermanentCarriesNoTTL ==
    (pure.fn = "AddTTL" /\ pure.done /\ pure.permanent) => ~pure.body.present

\* C31: IsValidTTL is true exactly for <digits><unit> with a unit among
\* s, m, h, d, whatever the number: every string ParseTTL accepts is valid,
\* while "0s" and "400d" are valid (and pass `config set default_ttl`) but
\* are rejected by ParseTTL.
C31_IsValidTTLGrammarOnly ==
    (pure.fn = "IsValidTTL" /\ pure.done) =>
        LET str == TTLString(pure.in)
        IN /\ pure.valid <=> WellFormedTTL(pure.in)
           /\ ParseTTL(str).ok => pure.valid
           /\ str \in {<<"0", "s">>, <<"4", "0", "0", "d">>} =>
                 /\ pure.valid
                 /\ ~ParseTTL(str).ok
                 /\ \E v \in SetValues :
                       CharsOf(v) = str /\ ValidateSet("default_ttl", v) = "nil"

\* "400d" was found valid although ParseTTL rejects it
C31_Witness ==
    /\ pure.fn = "IsValidTTL"
    /\ pure.done
    /\ TTLString(pure.in) = <<"4", "0", "0", "d">>
    /\ pure.valid
    /\ ParseTTL(TTLString(pure.in)) = TTLErr("ceiling")

\* C39: every share request body that carries a password has isPublic
\* false, for every combination of --public and --password, when sharing
\* an existing item (buildShareBody) and when sharing on add (createShare).
C39_PasswordMeansNotPublic ==
    (pure.fn \in {"buildShareBody", "createShare"} /\ pure.done /\ pure.share.hasPassword)
        => ~pure.share.isPublic

(***************************************************************************)
(* Properties of the item resolution of get, delete and share              *)
(***************************************************************************)
Is404(pr) == pr.out.kind = "response" /\ pr.out.status = 404

ProbeKinds == [i \in 1..Len(fan.probes) |-> fan.probes[i].kind]

IsPrefix(s, t) ==
    /\ Len(s) <= Len(t)
    /\ \A i \in 1..Len(s) : s[i] = t[i]

\* C14: in get and delete, when the short and the screenshot probes return
\* 404 the pro-file probe is issued third, and when it returns success the
\* command resolves via that probe: exactly three probes, in the order
\* short, screenshot, pro-file, and no probe after the successful one.
C14_ResolvedByThirdProbe ==
    (/\ fan.op \in {"get", "delete"}
     /\ Len(fan.probes) >= 2
     /\ Is404(fan.probes[1])
     /\ Is404(fan.probes[2]))
    => /\ fan.probes[1].kind = "short"
       /\ fan.probes[2].kind = "screenshot"
       /\ Len(fan.probes) = 2 => fan.pc = "probing"
       /\ Len(fan.probes) >= 3 =>
             /\ Len(fan.probes) = 3
             /\ fan.probes[3].kind = "file"
             /\ fan.pc = "done"
             /\ IsResp(fan.probes[3].out, SuccessCodes(fan.op)) =>
                   /\ fan.result = "Success"
                   /\ fan.source = "file"

C14_Witness ==
    /\ fan.op = "delete"
    /\ fan.pc = "done"
    /\ ProbeKinds = <<"short", "screenshot", "file">>
    /\ Is404(fan.probes[1])
    /\ Is404(fan.probes[2])
    /\ fan.probes[3].out = Response(204)
    /\ fan.result = "Success"
    /\ fan.source = "file"
    /\ fan.store0 = {"file"}
    /\ store = {}

\* C15: a 403 returned by the short probe ends the command at once with
\* ProRequired: no probe follows it.
C15_ShortProbe403ShortCircuits ==
    \A i \in 1..Len(fan.probes) :
        (fan.probes[i].kind = "short" /\ IsResp(fan.probes[i].out, {403}))
        => /\ Len(fan.probes) = i
           /\ fan.pc = "done"
           /\ fan.result = "ProRequired"

\* C16: a kind is probed only after the previous probe returned 404: every
\* response that is followed by another probe has status 404.
C16_NextKindOnlyAfter404 ==
    \A i \in 1..Len(fan.probes) :
        (i < Len(fan.probes) /\ fan.probes[i].out.kind = "response")
        => fan.probes[i].out.status = 404

C18_All404IsNotFound ==
    /\ (/\ fan.pc = "done"
        /\ \A i \in 1..Len(fan.probes) : Is404(fan.probes[i]))
       => /\ fan.result = "NotFound"
          /\ Len(fan.probes) = Len(ProbeOrder(fan.op))
          /\ store = fan.store0
    /\ (/\ fan.pc = "done"
        /\ fan.op = "delete"
        /\ fan.prev = "delete:Success"
        /\ fan.store0 = {}
        /\ \A i \in 1..Len(fan.probes) :
              /\ fan.probes[i].out.kind = "response"
              /\ fan.probes[i].out.status \notin FaultStatuses)
       => /\ Len(fan.probes) = 3
          /\ \A i \in 1..3 : Is404(fan.probes[i])
          /\ store = {}
          /\ fan.result = "NotFound"

C18_Witness ==
    /\ fan.pc = "done"
    /\ fan.op = "delete"
    /\ fan.prev = "delete:Success"
    /\ fan.store0 = {}
    /\ Len(fan.probes) = 3
    /\ \A i \in 1..3 : Is404(fan.probes[i])
    /\ fan.result = "NotFound"

\* C19: an error of the request executor on a probe ends the command with
\* that error: no probe follows it and the result is not NotFound.
C19_ExecutorErrorSurfaced ==
    \A i \in 1..Len(fan.probes) :
        fan.probes[i].out.kind = "error"
        => /\ Len(fan.probes) = i
           /\ fan.pc = "done"
           /\ fan.result = "Error"
           /\ fan.err = fan.probes[i].out.err

DeleteSucceeded(pr) == IsResp(pr.out, {200, 204})

\* C36: one delete command deletes at most one item: a DELETE that returns
\* 200 or 204 is the command's last request, so every DELETE is sent only
\* after all earlier ones did not succeed, no collection is asked twice and
\* the ID leaves at most one collection.
C36_DeleteAtMostOne ==
    fan.op = "delete" =>
        /\ \A i \in 1..Len(fan.probes) :
              DeleteSucceeded(fan.probes[i]) =>
                  /\ i = Len(fan.probes)
                  /\ fan.pc = "done"
                  /\ fan.result = "Success"
                  /\ fan.source = fan.probes[i].kind
        /\ \A i, j \in 1..Len(fan.probes) :
              fan.probes[i].kind = fan.probes[j].kind => i = j
        /\ store \subseteq fan.store0
        /\ Cardinality(fan.store0 \ store) <= 1

\* the ID was in the screenshots and in the pro files: the delete removed
\* the screenshot and left the pro file
C36_Witness ==
    /\ fan.op = "delete"
    /\ fan.pc = "done"
    /\ fan.store0 = {"screenshot", "file"}
    /\ Len(fan.probes) = 2
    /\ Is404(fan.probes[1])
    /\ DeleteSucceeded(fan.probes[2])
    /\ store = {"file"}

(***************************************************************************)
(* Properties of concurrent calls of api.Request                           *)
(***************************************************************************)
AllDone == \A p \in Callers : callers[p].pc = "done"

\* Every goroutine saw the same expired token at the gate and the token
\* endpoint answered every refresh with a token set.
AllRefreshed ==
    \A p \in Callers :
        /\ callers[p].sawExpired
        /\ callers[p].observed = callers[1].observed
        /\ callers[p].tokens /= NoTokens

\* The stored configuration is the token set written by the refresh of p.
StoredSetOf(p) ==
    /\ config.IDToken = callers[p].tokens.IDToken
    /\ config.AccessToken = callers[p].tokens.AccessToken
    /\ callers[p].tokens.RefreshToken /= ""
          => config.RefreshToken = callers[p].tokens.RefreshToken

\* C20: when all concurrent calls saw the same expired token, each made one
\* refresh and ended without error, and once all are done the stored
\* configuration, in memory and on disk, is the token set of one refresh,
\* not the ID token of one with the access or refresh token of another.
C20_ConcurrentRefreshLastWriteWins ==
    (AllDone /\ AllRefreshed)
    => /\ \A p \in Callers :
             /\ callers[p].refreshCalls = 1
             /\ callers[p].result.kind = "response"
       /\ \E p \in Callers : StoredSetOf(p)
       /\ disk = config

(***************************************************************************)
(* Properties of the stored configuration (SpecConfig)                     *)
(***************************************************************************)
BothOrNeither(cfg) == (cfg.IDToken.kind = "empty") <=> (cfg.RefreshToken = "")

\* C26: the stored configuration, in memory and in the file, has the ID
\* token and the refresh token both present or both absent.
C26_IDAndRefreshTogether == BothOrNeither(config) /\ BothOrNeither(disk)

\* C28: config.Set never waits for the configuration lock while the lock
\* is held: a Set that reached Save's mu.Lock() finds mu free.
C28_SetNeverBlocksOnLock == cmd.pc = "saveLock" => mu = "free"

Protected(cfg) ==
    <<cfg.IDToken, cfg.AccessToken, cfg.RefreshToken, cfg.LoggedInAt>>

\* C29: a `config set` leaves id_token, access_token, refresh_token and
\* logged_in_at as they were, in memory and in the file; when it returns an
\* error (protected key, unknown key, invalid value) the whole
\* configuration is as it was.
C29_ProtectedKeysReadOnly ==
    cmd.op = "set" =>
        /\ Protected(config) = Protected(cmd.before)
        /\ Protected(disk) = Protected(cmd.before)
        /\ (cmd.pc = "done" /\ cmd.result /= "killed") =>
              /\ cmd.result \in {"ProtectedKey", "InvalidKey", "InvalidURL",
                                 "InvalidQuiet", "InvalidTTL"}
              /\ config = cmd.before
              /\ disk = cmd.before

\* `config set refresh_token ...` on a logged-in configuration was refused
C29_Witness ==
    /\ cmd.op = "set"
    /\ cmd.pc = "done"
    /\ cmd.result = "ProtectedKey"
    /\ cmd.before.RefreshToken = "r-old"
    /\ config = cmd.before
    /\ disk = cmd.before

(***************************************************************************)
(* Properties of the list command (SpecList)                               *)
(***************************************************************************)
\* what the fetch of collection k contributes
Contribution(k) ==
    IF ls.fetch[k].outcome = "ok" THEN ItemsOf(k, ls.server[k]) ELSE <<>>

ListJoined ==
    ls.pc = "done" =>
        /\ \A k \in Kinds : ls.fetch[k].pc = "done"
        /\ ls.allItems = Contribution("short") \o Contribution("screenshot")
                            \o Contribution("file")
        /\ ls.limit /= "invalid" => ls.result = "nil"

\* C37: the list command always ends with its three fetches joined; the
\* combined sequence is shorts, then screenshots, then pro files whatever
\* the order in which the fetches return; a fetch that fails or answers a
\* status other than 200 contributes nothing and does not fail the listing.
C37_ListJoinsInOrder ==
    /\ []ListJoined
    /\ (ls.pc = "receiving") ~> (ls.pc = "done")

\* the fetches returned in the order files, screenshots, shorts and the
\* screenshots fetch failed: the list is the two shorts, then the pro file
C37_Witness ==
    /\ ls.pc = "done"
    /\ ls.finished = <<"file", "screenshot", "short">>
    /\ ls.server = [k \in Kinds |-> IF k = "short" THEN 2 ELSE 1]
    /\ ls.fetch["screenshot"].outcome = "status"
    /\ ls.allItems = ItemsOf("short", 2) \o ItemsOf("file", 1)
    /\ ls.result = "nil"

Answers(a, c) == a.kind = "response" /\ a.status /= 200 /\ (a.Error = c \/ a.ErrorCode = c)

\* the number of answers so far that carry slow_down in the "error" field
RECURSIVE SlowDowns(_)
SlowDowns(as) ==
    IF as = <<>> THEN 0
    ELSE (IF Answers(Head(as), "slow_down") /\ Head(as).Error = "slow_down" THEN 1 ELSE 0)
           + SlowDowns(Tail(as))

\* C40: PollForToken goes on polling only after an answer of
\* authorization_pending or slow_down, and returns at once on HTTP 200
\* (success), on a transport or decode error and on any other error code
\* (failure); the interval it sleeps is at least 1 second, never decreases
\* and grows by 5 seconds with each slow_down.
C40_PollUntilAnswered ==
    LET n == Len(poll.answers)
    IN /\ \A i \in 1..n :
             (i < n \/ poll.pc = "polling") =>
                 (Answers(poll.answers[i], "authorization_pending")
                    \/ Answers(poll.answers[i], "slow_down"))
       /\ \A i \in 1..n :
             LET a == poll.answers[i]
             IN (\/ a.kind /= "response"
                 \/ a.status = 200
                 \/ ~(Answers(a, "authorization_pending") \/ Answers(a, "slow_down")))
                => /\ i = n
                   /\ poll.pc = "returned"
                   /\ poll.result = IF a.kind /= "response" THEN a.kind
                                     ELSE IF a.status = 200 THEN "tokens"
                                     ELSE "loginFailed"
       /\ poll.pc = "returned" => n >= 1
       /\ poll.pc /= "idle" => poll.interval >= 1
       /\ poll.interval0 >= 1 /\ poll.slept /= <<>> => poll.slept[1] = poll.interval0
       /\ poll.slept /= <<>> =>
             poll.interval = poll.slept[1] + 5 * SlowDowns(poll.answers)
       /\ \A i \in 1..Len(poll.slept) :
             /\ poll.slept[i] >= 1
             /\ i > 1 => poll.slept[i] >= poll.slept[i - 1]
             /\ i > 1 =>
                   poll.slept[i] - poll.slept[i - 1] =
                       (IF poll.answers[i - 1].Error = "slow_down"
                           /\ ~Answers(poll.answers[i - 1], "authorization_pending")
                        THEN 5 ELSE 0)

\* called with interval 0: pending, slow_down, then HTTP 200; the sleeps
\* were 2, 2 and 7 seconds
C40_Witness ==
    /\ poll.pc = "returned"
    /\ poll.interval0 = 0
    /\ Len(poll.answers) = 3
    /\ Answers(poll.answers[1], "authorization_pending")
    /\ poll.answers[2].Error = "slow_down"
    /\ poll.answers[3].status = 200
    /\ poll.slept = <<2, 2, 7>>
    /\ poll.result = "tokens"

(***************************************************************************)
(* Specifications                                                          *)
(***************************************************************************)
UploadIdle ==
    /\ plan = <<>>
    /\ upc = "loop"
    /\ bi = 0
    /\ g = <<>>
    /\ results = <<>>
    /\ nCollected = 0
    /\ completedParts = <<>>
    /\ ret = [status |-> "pending", parts |-> <<>>, partsNil |-> TRUE, err |-> NoErr]
    /\ partSize = 0
    /\ fileLen = 0
    /\ onProgress = FALSE
    /\ partData = <<>>
    /\ completedBytes = 0
    /\ progress = <<>>

ExecIdle ==
    /\ config = [BaseURL |-> "", IDToken |-> EmptyTok, AccessToken |-> "",
                 RefreshToken |-> ""]
    /\ disk = config
    /\ call = IdleCall

PureIdle == pure = IdlePure

FanIdle ==
    /\ store = {}
    /\ fan = IdleFan

ConcIdle == callers = <<>>

HFIdle == hf = IdleHF

ListIdle == ls = IdleList

PollIdle == poll = IdlePoll

ConfIdle ==
    /\ mu = "free"
    /\ cmd = IdleCmd

\* SpecUpload: one invocation of UploadParts; the executor is idle.
InitUpload ==
    /\ UploadInit
    /\ ExecIdle
    /\ PureIdle
    /\ FanIdle
    /\ ConcIdle
    /\ HFIdle
    /\ ListIdle
    /\ PollIdle
    /\ ConfIdle

NextUpload ==
    \/ LaunchBatch /\ UNCHANGED <<xvars, pure, fvars, callers, kvars, hf, lvars>>
    \/ Attempts /\ UNCHANGED <<xvars, pure, fvars, callers, kvars, hf, lvars>>
    \/ Collect /\ UNCHANGED <<xvars, pure, fvars, callers, kvars, hf, lvars>>
    \/ Return /\ UNCHANGED <<xvars, pure, fvars, callers, kvars, hf, lvars>>

SpecUpload == InitUpload /\ [][NextUpload]_vars

\* SpecExec: Request calls, one after the other, on a loaded configuration.
InitExec ==
    /\ ExecInit
    /\ UploadIdle
    /\ PureIdle
    /\ FanIdle
    /\ ConcIdle
    /\ HFIdle
    /\ ListIdle
    /\ PollIdle
    /\ ConfIdle

NextExec ==
    \/ BeginRequests /\ UNCHANGED <<uvars, pure, fvars, callers, kvars, hf, lvars>>
    \/ RefreshResponses /\ UNCHANGED <<uvars, pure, fvars, callers, kvars, hf, lvars>>
    \/ TargetResponses /\ UNCHANGED <<uvars, pure, fvars, callers, kvars, hf, lvars>>

SpecExec == InitExec /\ [][NextExec]_vars

\* SpecPure: one application of IsTokenExpired or ParseTTL to an input.
InitPure ==
    /\ PureInit
    /\ UploadIdle
    /\ ExecIdle
    /\ FanIdle
    /\ ConcIdle
    /\ HFIdle
    /\ ListIdle
    /\ PollIdle
    /\ ConfIdle

NextPure ==
    \/ ApplyIsTokenExpired /\ UNCHANGED <<uvars, xvars, fvars, callers, kvars, hf, lvars>>
    \/ ApplyParseTTL /\ UNCHANGED <<uvars, xvars, fvars, callers, kvars, hf, lvars>>
    \/ ApplyIsValidTTL /\ UNCHANGED <<uvars, xvars, fvars, callers, kvars, hf, lvars>>
    \/ ApplyAddTTL /\ UNCHANGED <<uvars, xvars, fvars, callers, kvars, hf, lvars>>
    \/ ApplyBuildShareBody /\ UNCHANGED <<uvars, xvars, fvars, callers, kvars, hf, lvars>>
    \/ ApplyCreateShare /\ UNCHANGED <<uvars, xvars, fvars, callers, kvars, hf, lvars>>

SpecPure == InitPure /\ [][NextPure]_vars

\* SpecFanout: get, delete and share commands on one ID, one after the other.
InitFanout ==
    /\ FanInit
    /\ UploadIdle
    /\ ExecIdle
    /\ PureIdle
    /\ ConcIdle
    /\ HFIdle
    /\ ListIdle
    /\ PollIdle
    /\ ConfIdle

NextFanout ==
    \/ StartFanouts /\ UNCHANGED <<uvars, xvars, pure, callers, kvars, hf, lvars>>
    \/ Probes /\ UNCHANGED <<uvars, xvars, pure, callers, kvars, hf, lvars>>

SpecFanout == InitFanout /\ [][NextFanout]_vars

\* SpecConc: NCallers goroutines call api.Request at the same time.
InitConc ==
    /\ ConcInit
    /\ UploadIdle
    /\ PureIdle
    /\ FanIdle
    /\ ConfIdle
    /\ HFIdle
    /\ ListIdle
    /\ PollIdle

NextConc ==
    \/ Gates /\ UNCHANGED <<uvars, pure, fvars, kvars, hf, lvars>>
    \/ RefreshPosts /\ UNCHANGED <<uvars, pure, fvars, kvars, hf, lvars>>
    \/ RefreshAnswers /\ UNCHANGED <<uvars, pure, fvars, kvars, hf, lvars>>
    \/ WriteIDTokens /\ UNCHANGED <<uvars, pure, fvars, kvars, hf, lvars>>
    \/ WriteAccessTokens /\ UNCHANGED <<uvars, pure, fvars, kvars, hf, lvars>>
    \/ WriteRefreshTokens /\ UNCHANGED <<uvars, pure, fvars, kvars, hf, lvars>>
    \/ SetConfigAndReturns /\ UNCHANGED <<uvars, pure, fvars, kvars, hf, lvars>>
    \/ CallerResponses /\ UNCHANGED <<uvars, pure, fvars, kvars, hf, lvars>>

SpecConc == InitConc /\ [][NextConc]_vars

\* SpecConfig: the commands that write the configuration, one process
\* after the other.
InitConfig ==
    /\ ConfigInit
    /\ UploadIdle
    /\ PureIdle
    /\ FanIdle
    /\ ConcIdle
    /\ HFIdle
    /\ ListIdle
    /\ PollIdle

NextConfig ==
    \/ Logins /\ UNCHANGED <<uvars, pure, fvars, callers, hf, lvars>>
    \/ Refreshes /\ UNCHANGED <<uvars, pure, fvars, callers, hf, lvars>>
    \/ Logouts /\ UNCHANGED <<uvars, pure, fvars, callers, hf, lvars>>
    \/ ResetConfigs /\ UNCHANGED <<uvars, pure, fvars, callers, hf, lvars>>
    \/ ConfigSets /\ UNCHANGED <<uvars, pure, fvars, callers, hf, lvars>>
    \/ Killed /\ UNCHANGED <<uvars, pure, fvars, callers, hf, lvars>>

SpecConfig == InitConfig /\ [][NextConfig]_vars

\* SpecFileUpload: handleFileUpload with the upload engine inside.
InitFileUpload ==
    /\ UploadIdle
    /\ hf = IdleHF
    /\ ListIdle
    /\ PollIdle
    /\ ExecIdle
    /\ PureIdle
    /\ FanIdle
    /\ ConcIdle
    /\ ConfIdle

NextFileUpload ==
    \/ InitRequests /\ UNCHANGED <<xvars, pure, fvars, callers, kvars, lvars>>
    \/ Uploading /\ LaunchBatch /\ UNCHANGED <<xvars, pure, fvars, callers, kvars, hf, lvars>>
    \/ Uploading /\ Attempts /\ UNCHANGED <<xvars, pure, fvars, callers, kvars, hf, lvars>>
    \/ Uploading /\ Collect /\ UNCHANGED <<xvars, pure, fvars, callers, kvars, hf, lvars>>
    \/ Uploading /\ Return /\ UNCHANGED <<xvars, pure, fvars, callers, kvars, hf, lvars>>
    \/ AfterUploadParts /\ UNCHANGED <<xvars, pure, fvars, callers, kvars, lvars>>
    \/ CompleteResponsesArrive /\ UNCHANGED <<xvars, pure, fvars, callers, kvars, lvars>>

SpecFileUpload == InitFileUpload /\ [][NextFileUpload]_vars

\* SpecList: one run of the list command.  The goroutines are scheduled and
\* every api.Get returns (DefaultClient has a 60 second timeout).
InitList ==
    /\ ListInit
    /\ PollIdle
    /\ UploadIdle
    /\ ExecIdle
    /\ PureIdle
    /\ FanIdle
    /\ ConcIdle
    /\ HFIdle
    /\ ConfIdle

NextList ==
    \/ ListStart /\ UNCHANGED <<uvars, xvars, pure, fvars, callers, kvars, hf, poll>>
    \/ FetchesReturn /\ UNCHANGED <<uvars, xvars, pure, fvars, callers, kvars, hf, poll>>
    \/ Receive /\ UNCHANGED <<uvars, xvars, pure, fvars, callers, kvars, hf, poll>>

SpecList == InitList /\ [][NextList]_vars /\ WF_vars(NextList)

\* SpecSession: processes of the commands login, logout, config reset and
\* config set, and of commands that call the API, one after the other on
\* one configuration file.
InitSession ==
    /\ ConfigInit
    /\ UploadIdle
    /\ PureIdle
    /\ FanIdle
    /\ ConcIdle
    /\ HFIdle
    /\ ListIdle
    /\ PollIdle

NextSession ==
    \/ Logins /\ UNCHANGED <<uvars, pure, fvars, callers, hf, lvars>>
    \/ Logouts /\ UNCHANGED <<uvars, pure, fvars, callers, hf, lvars>>
    \/ ResetConfigs /\ UNCHANGED <<uvars, pure, fvars, callers, hf, lvars>>
    \/ SessionSets /\ UNCHANGED <<uvars, pure, fvars, callers, hf, lvars>>
    \/ Killed /\ UNCHANGED <<uvars, pure, fvars, callers, hf, lvars>>
    \/ Load /\ UNCHANGED <<uvars, pure, fvars, callers, hf, lvars>>
    \/ CommandRequests /\ UNCHANGED <<uvars, pure, fvars, callers, hf, lvars>>
    \/ RefreshResponses /\ UNCHANGED <<uvars, pure, fvars, callers, kvars, hf, lvars>>
    \/ TargetResponses /\ UNCHANGED <<uvars, pure, fvars, callers, kvars, hf, lvars>>

SpecSession == InitSession /\ [][NextSession]_vars

\* SpecPoll: one call of PollForToken.
InitPoll ==
    /\ poll = IdlePoll
    /\ UploadIdle
    /\ ExecIdle
    /\ PureIdle
    /\ FanIdle
    /\ ConcIdle
    /\ HFIdle
    /\ ConfIdle
    /\ ls = IdleList

NextPoll ==
    \/ PollStarts /\ UNCHANGED <<uvars, xvars, pure, fvars, callers, kvars, hf, ls>>
    \/ PollsOnce /\ UNCHANGED <<uvars, xvars, pure, fvars, callers, kvars, hf, ls>>

SpecPoll == InitPoll /\ [][NextPoll]_vars

====
